---- MODULE Spec2Model ----
(***************************************************************************)
(* A model of punq's resolution engine (src/punq/__init__.py): the chained *)
(* registration store, the per-call resolution context with its candidate  *)
(* stacks and instance cache, the argument assembly of _build_impl, and    *)
(* the Container facade with its singleton cache.                          *)
(*                                                                         *)
(* A top-level call (resolve, resolve_all) runs on an explicit stack of    *)
(* frames, one frame per active _resolve_impl, _build_impl or resolve_all  *)
(* activation; an exception empties the stack.                             *)
(***************************************************************************)
EXTENDS Integers, Sequences, FiniteSets, TLC

(***************************************************************************)
(* Bounds of the model.                                                    *)
(***************************************************************************)
MaxRegs == 3
MaxCalls == 2
MaxChildren == 1
MaxGraphRegs == 4
MaxGraphCalls == 1
MaxArgRegs == 3
MaxArgCalls == 1
MaxSingleRegs == 2
MaxSingleCalls == 3
MaxScopedRegs == 3
MaxScopedCalls == 1
MaxScopedChildren == 2
MaxInstRegs == 2
MaxInstCalls == 2
MaxRefRegs == 3
MaxRefCalls == 1
MaxRefChildren == 1
MaxAutoRegs == 2
MaxAutoCalls == 2
MaxAutoChildren == 1
MaxListRegs == 3
MaxListCalls == 1
MaxOverrideRegs == 3
MaxOverrideCalls == 2
MaxCacheRegs == 2
MaxCacheCalls == 3
MaxCacheChildren == 2
MaxNewRegs == 3
MaxNewCalls == 2
MaxRaceRegs == 2
MaxRaceCalls == 3
MaxMixRegs == 3
MaxMixCalls == 3
MaxCycleRegs == 3
MaxCycleCalls == 2
MaxFrameRegs == 3
MaxFrameCalls == 2
MaxFrameChildren == 1
MaxSharedRegs == 4
MaxSharedCalls == 2
MaxInheritRegs == 3
MaxInheritCalls == 2
MaxInheritChildren == 1
MaxKinRegs == 1
MaxKinCalls == 2
MaxKinChildren == 2
MaxFailRegs == 3
MaxFailCalls == 2
MaxEmptyRegs == 2
MaxEmptyCalls == 2
MaxEmptyChildren == 1

\* the thread of the sequential specifications
Threads == {1}

\* the threads there are; thread 2 runs only in the concurrent specifications
AllThreads == Threads \cup {2}

(***************************************************************************)
(* Values.  Every Python value the engine handles is a record of one       *)
(* shape: a heap object (built instance or list), a literal, None, the     *)
(* sentinel punq.empty, a container passed as instance=self, or an object  *)
(* made by the caller.                                                     *)
(***************************************************************************)
Obj(n) == [t |-> "obj", n |-> n]
Lit(n) == [t |-> "lit", n |-> n]
Ext(n) == [t |-> "ext", n |-> n]
Self(c) == [t |-> "container", n |-> c]
NoneVal == [t |-> "none", n |-> 0]
empty == [t |-> "empty", n |-> 0]

EmptyMap == [x \in {} |-> NoneVal]

\* dict.update(b) applied to a
Update(a, b) == b @@ a

\* dict.get(k), None when the key is absent
DictGet(d, k) == IF k \in DOMAIN d THEN d[k] ELSE NoneVal

Restrict(d, S) == [x \in (DOMAIN d) \cap S |-> d[x]]

Last(s) == s[Len(s)]
Front(s) == SubSeq(s, 1, Len(s) - 1)

Range(s) == {s[i] : i \in DOMAIN s}

(***************************************************************************)
(* The classes the application defines.  They are inputs of the engine,    *)
(* shaped after the classes of the repository's tests.  Each parameter of  *)
(* a constructor has a name, an annotation (the service key it needs, ""   *)
(* when it has none), a declared default (empty when it has none) and a   *)
(* keyword-only flag.                                                      *)
(***************************************************************************)
Param(name, key, dflt, kwonly) ==
    [name |-> name, key |-> key, dflt |-> dflt, kwonly |-> kwonly]

Classes ==
    {"Container", "Filter", "NullFilter", "Is_A", "Dep", "SubSystemA", "Root",
     "Wrapper", "int", "Client", "Doer", "BroadcastSpeaker",
     "Dependency", "DataAccessLayer", "RefClient", "Defaulted",
     "NotInitializable", "Relay", "Scribe", "Author", "Panel"}

\* the classes that are typing.Protocol classes: calling one is a TypeError
Protocols == {"NotInitializable"}

ListKeys == {"List_Filter", "List_SubSystemA"}

OtherKeys == {"OptStr"}

\* literal strings used as service keys or as annotations, and the
\* typing.ForwardRef placeholders made from them
StrKeys == {"'Dependency'"}

RefKeys == {"ForwardRef('Dependency')"}

Keys == Classes \cup ListKeys \cup OtherKeys \cup StrKeys \cup RefKeys

\* isinstance(service, str)
IsStr(service) == service \in StrKeys

\* the name a literal string spells
NameOfStr(service) ==
    CASE service = "'Dependency'" -> "Dependency"
      [] OTHER -> service

\* typing.ForwardRef(service)
ForwardRef(service) ==
    CASE service = "'Dependency'" -> "ForwardRef('Dependency')"
      [] OTHER -> service

Params(cls) ==
    CASE cls = "Is_A" -> << Param("succ", "Filter", empty, FALSE) >>
      [] cls = "SubSystemA" -> << Param("d", "Dep", empty, FALSE) >>
      [] cls = "Root" -> << Param("d", "Dep", empty, FALSE),
                            Param("a", "SubSystemA", empty, FALSE) >>
      [] cls = "Wrapper" -> << Param("a", "SubSystemA", empty, FALSE) >>
      [] cls = "Client" -> << Param("a", "Dep", empty, FALSE),
                              Param("b", "int", Lit(10), FALSE),
                              Param("c", "OptStr", NoneVal, FALSE) >>
      [] cls = "Doer" -> << Param("a", "Dep", empty, TRUE),
                            Param("b", "int", Lit(10), TRUE),
                            Param("c", "OptStr", NoneVal, TRUE) >>
      [] cls = "BroadcastSpeaker" ->
                         << Param("writers", "List_Filter", empty, FALSE) >>
      [] cls = "RefClient" ->
                         << Param("dep", "'Dependency'", empty, FALSE) >>
      [] cls = "Defaulted" -> << Param("b", "int", Lit(10), FALSE) >>
      [] cls = "Scribe" -> << Param("b", "int", Lit(10), FALSE) >>
      [] cls = "Author" -> << Param("s", "Scribe", empty, FALSE),
                              Param("b", "int", Lit(10), FALSE) >>
      [] cls = "Relay" -> << Param("first", "List_Filter", empty, FALSE),
                             Param("second", "List_Filter", empty, FALSE) >>
      [] cls = "Panel" -> << Param("d", "Dep", empty, FALSE),
                             Param("subs", "List_SubSystemA", empty, FALSE) >>
      [] OTHER -> << >>

ParamNames(cls) == {Params(cls)[i].name : i \in DOMAIN Params(cls)}

ParamOf(cls, name) ==
    LET i == CHOOSE j \in DOMAIN Params(cls) : Params(cls)[j].name = name
    IN Params(cls)[i]

\* inspect.isclass(service)
IsClass(service) == service \in Classes

\* callable(factory)
Callable(factory) == factory \in Classes

\* _compat.is_generic_list and _ResolutionTarget.generic_parameter
is_generic_list(service) == service \in ListKeys

generic_parameter(service) ==
    CASE service = "List_Filter" -> "Filter"
      [] service = "List_SubSystemA" -> "SubSystemA"
      [] OTHER -> service

(***************************************************************************)
(* inspect.getfullargspec(builder): positional names (self first, for a    *)
(* class), the defaults of the last positional parameters, the keyword-    *)
(* only names and their defaults.  The builder "lambda" is the closure     *)
(* `lambda: instance` of an instance registration.                         *)
(***************************************************************************)
IsPositional(p) == ~p.kwonly
IsKwOnly(p) == p.kwonly
HasDefault(p) == p.dflt # empty

NamesOf(ps) == [i \in DOMAIN ps |-> ps[i].name]
DefaultsOf(ps) == [i \in DOMAIN ps |-> ps[i].dflt]

getfullargspec(builder) ==
    IF builder = "lambda"
    THEN [args |-> << >>, defaults |-> << >>, kwonlyargs |-> << >>,
          kwonlydefaults |-> EmptyMap]
    ELSE LET ps == Params(builder)
             pos == SelectSeq(ps, IsPositional)
             kwo == SelectSeq(ps, IsKwOnly)
             kwd == SelectSeq(kwo, HasDefault)
         IN [args |-> << "self" >> \o NamesOf(pos),
             defaults |-> DefaultsOf(SelectSeq(pos, HasDefault)),
             kwonlyargs |-> NamesOf(kwo),
             kwonlydefaults |->
                 [n \in Range(NamesOf(kwd)) |-> ParamOf(builder, n).dflt]]

(***************************************************************************)
(* _match_defaults(spec): the declared defaults by parameter name.  The    *)
(* positional defaults are padded on the left with None and every None is  *)
(* then dropped, a declared default of None included; the keyword-only     *)
(* defaults are merged as they are.                                        *)
(***************************************************************************)
_match_defaults(spec) ==
    LET n == Len(spec.args)
        offset == n - Len(spec.defaults)
        defaults == [i \in 1..n |-> IF i <= offset THEN NoneVal
                                    ELSE spec.defaults[i - offset]]
        kept == {i \in 1..n : defaults[i] # NoneVal}
        ns == IF spec.defaults # << >>
              THEN [k \in {spec.args[i] : i \in kept} |->
                       defaults[CHOOSE i \in kept : spec.args[i] = k]]
              ELSE EmptyMap
    IN Update(ns, spec.kwonlydefaults)

(***************************************************************************)
(* Scope and _Registration.  A registration also carries its identity      *)
(* (id: the order of creation) and, for the closure `lambda: instance`,    *)
(* the captured instance.                                                  *)
(***************************************************************************)
transient == "transient"
singleton == "singleton"
Scope == {transient, singleton}

_Registration(id, service, scope, builder, needs, args, instance) ==
    [id |-> id, service |-> service, scope |-> scope, builder |-> builder,
     needs |-> needs, args |-> args, instance |-> instance]

NoRegistration == _Registration(0, "", transient, "", << >>, EmptyMap, empty)

(***************************************************************************)
(* _Registry._get_needs_for_ctor: get_type_hints(cls.__init__, None, ln),  *)
(* the annotated parameters in order.  An annotation written as a string   *)
(* is evaluated in the name table ln (the class's own globals do not hold  *)
(* the name): a name bound to a class gives the class, a name bound to a   *)
(* string gives the ForwardRef of that string, an unbound name is a        *)
(* NameError, raised as InvalidForwardReferenceError.                      *)
(***************************************************************************)
IsAnnotated(p) == p.key # ""

Evaluate(ln, annotation) ==
    IF ~IsStr(annotation)
    THEN annotation
    ELSE LET v == ln[NameOfStr(annotation)]
         IN IF IsStr(v) THEN ForwardRef(v) ELSE v

NameError(ln, cls) ==
    \E i \in DOMAIN Params(cls) :
        /\ IsStr(Params(cls)[i].key)
        /\ NameOfStr(Params(cls)[i].key) \notin DOMAIN ln

_get_needs_for_ctor(ln, cls) ==
    LET ps == SelectSeq(Params(cls), IsAnnotated)
    IN [i \in DOMAIN ps |->
           [name |-> ps[i].name, key |-> Evaluate(ln, ps[i].key)]]

(***************************************************************************)
(* State.  Containers are numbered from 1; container c owns the            *)
(* RegistrationScope c (parent[c] is 0 at the root), the name table        *)
(* localns[c], the singleton cache singletons[c] and its flag              *)
(* auto_register[c].  objs is the heap of built instances and lists.       *)
(* Each thread runs at most one top-level call: call[t] describes it,      *)
(* frames[t] is its stack and contexts[t] the _ResolutionContexts it made. *)
(* returned lists the top-level calls that have returned, with what they   *)
(* returned: what the application has seen so far.  In call[t], first is   *)
(* the size of the heap and cached whether the singleton cache held the    *)
(* call's key when the call began.                                         *)
(***************************************************************************)
VARIABLES parent, entries, localns, singletons, auto_register,
          regCount, nregs, ncalls, objs, call, frames, contexts, returned

storeVars == << parent, entries, localns, auto_register, regCount, nregs >>
vars == << parent, entries, localns, singletons, auto_register,
           regCount, nregs, ncalls, objs, call, frames, contexts, returned >>

Containers == DOMAIN parent

NoEntries == [k \in Keys |-> << >>]

\* RegistrationScope.get returning the entries of every scope there is
ScopeGet_every_scope(par, es, s, key) ==
    LET RECURSIVE upto(_)
        upto(n) == IF n = 0 THEN << >> ELSE upto(n - 1) \o es[n][key]
    IN upto(Len(es))

\* RegistrationScope.get leaving out the ancestors' entries
ScopeGet_own_only(par, es, s, key) == es[s][key]

\* RegistrationScope.get putting the scope's own entries first
RECURSIVE ScopeGet_own_first(_, _, _, _)
ScopeGet_own_first(par, es, s, key) ==
    IF par[s] # 0
    THEN es[s][key] \o ScopeGet_own_first(par, es, par[s], key)
    ELSE es[s][key]

\* RegistrationScope.get with the parent's entries newest first
ScopeGet_parent_reversed(par, es, s, key) ==
    IF par[s] # 0
    THEN [i \in DOMAIN es[par[s]][key] |->
             es[par[s]][key][Len(es[par[s]][key]) + 1 - i]] \o es[s][key]
    ELSE es[s][key]

\* RegistrationScope.get looking no further than the scope's parent
ScopeGet_one_level(par, es, s, key) ==
    IF par[s] # 0 THEN es[par[s]][key] \o es[s][key] ELSE es[s][key]

\* RegistrationScope.get: the ancestors' entries, then the scope's own
RECURSIVE ScopeGet(_, _, _, _)
ScopeGet(par, es, s, key) ==
    IF par[s] # 0
    THEN ScopeGet(par, es, par[s], key) \o es[s][key]
    ELSE es[s][key]

Get(s, key) == ScopeGet(parent, entries, s, key)

\* ScopeAppend putting the new entry in front
ScopeAppend_front(es, s, key, value) == [es EXCEPT ![s][key] = << value >> \o @]

\* RegistrationScope.append
ScopeAppend(es, s, key, value) == [es EXCEPT ![s][key] = Append(@, value)]

\* the key _update_localns stores a service under: the name of a class,
\* the string itself for a string, the service itself otherwise
TypeName(service) == IF IsStr(service) THEN NameOfStr(service) ELSE service

\* _Registry._update_localns
_update_localns(ln, c, service) ==
    [ln EXCEPT ![c] = Update(@, TypeName(service) :> service)]

(***************************************************************************)
(* _Registry.register on the store st = [entries, localns, count, err].    *)
(* err is "" when the call returns, the exception's name when it raises;   *)
(* what was appended before the exception stays appended.                  *)
(***************************************************************************)
\* register_service_and_instance storing a transient registration
register_service_and_instance_transient(st, c, service, instance) ==
    [st EXCEPT
       !.entries = ScopeAppend(@, c, service,
                      _Registration(st.count + 1, service, transient, "lambda",
                                    << >>, EmptyMap, instance)),
       !.count = @ + 1]

register_service_and_instance(st, c, service, instance) ==
    [st EXCEPT
       !.entries = ScopeAppend(@, c, service,
                      _Registration(st.count + 1, service, singleton, "lambda",
                                    << >>, EmptyMap, instance)),
       !.count = @ + 1]

\* register_concrete_service appending to the root scope
register_concrete_service_root(st, c, service, scope, resolve_args) ==
    IF ~IsClass(service)
    THEN [st EXCEPT !.err = "InvalidRegistrationError"]
    ELSE IF NameError(st.localns[c], service)
    THEN [st EXCEPT !.err = "InvalidForwardReferenceError"]
    ELSE [st EXCEPT
            !.entries = ScopeAppend(@, 1, service,
                           _Registration(st.count + 1, service, scope, service,
                                         _get_needs_for_ctor(st.localns[c],
                                                             service),
                                         resolve_args, empty)),
            !.count = @ + 1]

register_concrete_service(st, c, service, scope, resolve_args) ==
    IF ~IsClass(service)
    THEN [st EXCEPT !.err = "InvalidRegistrationError"]
    ELSE IF NameError(st.localns[c], service)
    THEN [st EXCEPT !.err = "InvalidForwardReferenceError"]
    ELSE [st EXCEPT
            !.entries = ScopeAppend(@, c, service,
                           _Registration(st.count + 1, service, scope, service,
                                         _get_needs_for_ctor(st.localns[c],
                                                             service),
                                         resolve_args, empty)),
            !.count = @ + 1]

register_service_and_impl(st, c, service, scope, impl, resolve_args) ==
    IF NameError(st.localns[c], impl)
    THEN [st EXCEPT !.err = "InvalidForwardReferenceError"]
    ELSE [st EXCEPT
            !.entries = ScopeAppend(@, c, service,
                           _Registration(st.count + 1, service, scope, impl,
                                         _get_needs_for_ctor(st.localns[c],
                                                             impl),
                                         resolve_args, empty)),
            !.count = @ + 1]

\* _Registry.register with the name table updated before the checks
RegisterOnce_names_first(st, c, service, factory, instance, scope, kwargs) ==
    LET st0 == [st EXCEPT !.localns = _update_localns(@, c, service)]
    IN IF instance # empty
       THEN register_service_and_instance(st0, c, service, instance)
       ELSE IF factory = "empty"
       THEN register_concrete_service(st0, c, service, scope, kwargs)
       ELSE IF Callable(factory)
       THEN register_service_and_impl(st0, c, service, scope, factory, kwargs)
       ELSE [st0 EXCEPT !.err = "InvalidRegistrationError"]

\* the body of _Registry.register up to _update_localns
RegisterOnce(st, c, service, factory, instance, scope, kwargs) ==
    LET st1 == IF instance # empty
               THEN register_service_and_instance(st, c, service, instance)
               ELSE IF factory = "empty"
               THEN register_concrete_service(st, c, service, scope, kwargs)
               ELSE IF Callable(factory)
               THEN register_service_and_impl(st, c, service, scope, factory,
                                              kwargs)
               ELSE [st EXCEPT !.err = "InvalidRegistrationError"]
    IN IF st1.err # ""
       THEN st1
       ELSE [st1 EXCEPT !.localns = _update_localns(@, c, service)]

\* ensure_forward_ref: a string key is registered once more under its
\* ForwardRef, with the factory, the instance and the static arguments but
\* not the scope
ensure_forward_ref(st, c, service, factory, instance, kwargs) ==
    IF IsStr(service)
    THEN RegisterOnce(st, c, ForwardRef(service), factory, instance,
                      transient, kwargs)
    ELSE st

RegistryRegister(st, c, service, factory, instance, scope, kwargs) ==
    LET st1 == RegisterOnce(st, c, service, factory, instance, scope, kwargs)
    IN IF st1.err # ""
       THEN st1
       ELSE ensure_forward_ref(st1, c, service, factory, instance, kwargs)

Store == [entries |-> entries, localns |-> localns, count |-> regCount,
          err |-> ""]

(***************************************************************************)
(* Container.__init__: a fresh registry (a child scope of the parent's     *)
(* when one is given), the registration of the container itself under the  *)
(* key Container, an empty singleton cache.                                *)
(***************************************************************************)
NewContainer(st, par, c) ==
    RegistryRegister(
        [st EXCEPT !.entries = Append(@, NoEntries),
                   !.localns = Append(@, EmptyMap)],
        c, "Container", "empty", Self(c), transient, EmptyMap)

IdleCall ==
    [op |-> "idle", c |-> 0, key |-> "", kwargs |-> EmptyMap,
     status |-> "idle", result |-> NoneVal, err |-> "", errkey |-> "",
     first |-> 0, cached |-> FALSE, regs |-> 0]

InitStore ==
    NewContainer([entries |-> << >>, localns |-> << >>, count |-> 0,
                  err |-> ""], 0, 1)

InitWith(auto) ==
    /\ parent = << 0 >>
    /\ entries = InitStore.entries
    /\ localns = InitStore.localns
    /\ regCount = InitStore.count
    /\ singletons = << EmptyMap >>
    /\ auto_register = << auto >>
    /\ nregs = 0
    /\ ncalls = 0
    /\ objs = << >>
    /\ call = [t \in AllThreads |-> IdleCall]
    /\ frames = [t \in AllThreads |-> << >>]
    /\ contexts = [t \in AllThreads |-> << >>]
    /\ returned = << >>

Init == InitWith(FALSE)

(***************************************************************************)
(* Container.register(service, factory, instance, scope, **kwargs).        *)
(***************************************************************************)
Idle(t) == call[t].status # "running"

RegOption(service, factory, instance, scope, kwargs) ==
    [service |-> service, factory |-> factory, instance |-> instance,
     scope |-> scope, kwargs |-> kwargs]

Register(t, c, o, maxRegs) ==
    /\ Idle(t)
    /\ nregs < maxRegs
    /\ LET st == RegistryRegister(Store, c, o.service, o.factory, o.instance,
                                  o.scope, o.kwargs)
       IN /\ entries' = st.entries
          /\ localns' = st.localns
          /\ regCount' = st.count
          /\ call' = [call EXCEPT ![t] =
                        [IdleCall EXCEPT !.op = "register", !.c = c,
                            !.key = o.service,
                            !.status = IF st.err = "" THEN "returned"
                                       ELSE "raised",
                            !.err = st.err]]
    /\ nregs' = nregs + 1
    /\ UNCHANGED << parent, singletons, auto_register, ncalls, objs, frames,
                    contexts, returned >>

(***************************************************************************)
(* Container.child(): a container on a child scope of this one's store,    *)
(* with its own empty singleton cache and the same auto_register flag.     *)
(***************************************************************************)
Child(t, c, maxChildren) ==
    /\ Idle(t)
    /\ Len(parent) < 1 + maxChildren
    /\ LET n == Len(parent) + 1
           st == NewContainer(Store, c, n)
       IN /\ parent' = Append(parent, c)
          /\ entries' = st.entries
          /\ localns' = st.localns
          /\ regCount' = st.count
          /\ singletons' = Append(singletons, EmptyMap)
          /\ auto_register' = Append(auto_register, auto_register[c])
          /\ call' = [call EXCEPT ![t] =
                        [IdleCall EXCEPT !.op = "child", !.c = c,
                            !.status = "returned", !.result = Self(n)]]
    /\ UNCHANGED << nregs, ncalls, objs, frames, contexts, returned >>

(***************************************************************************)
(* _ResolutionContext and _ResolutionTarget.  A context holds, per key met *)
(* in the call, the call's own copy of the candidate list (targets) and    *)
(* the instance built for the key (cache).                                 *)
(***************************************************************************)
_ResolutionContext(key, impls) ==
    [targets |-> (key :> impls), cache |-> EmptyMap]

\* _Registry.build_context on the store es of container c
build_context(par, es, c, key, ctxs, existing) ==
    IF existing = 0
    THEN [ctxs |-> Append(ctxs, _ResolutionContext(key, ScopeGet(par, es, c, key))),
          ctx |-> Len(ctxs) + 1]
    ELSE IF key \notin DOMAIN ctxs[existing].targets
    THEN [ctxs |-> [ctxs EXCEPT ![existing].targets =
                       Update(@, key :> ScopeGet(par, es, c, key))],
          ctx |-> existing]
    ELSE [ctxs |-> ctxs, ctx |-> existing]

\* next_impl preferring a singleton-scoped candidate to a newer transient one
next_impl_singleton_first(impls) ==
    LET single == {i \in DOMAIN impls : impls[i].scope = singleton}
    IN IF single # {}
       THEN impls[CHOOSE i \in single : \A j \in single : j <= i]
       ELSE IF Len(impls) > 0 THEN Last(impls) ELSE NoRegistration

\* next_impl taking the oldest candidate instead of the newest
next_impl_oldest(impls) == IF Len(impls) > 0 THEN Head(impls) ELSE NoRegistration

\* _ResolutionTarget.next_impl: the last candidate, None when none is left
next_impl(impls) == IF Len(impls) > 0 THEN Last(impls) ELSE NoRegistration

\* AfterNextImpl leaving the candidate where it is
AfterNextImpl_keeps(impls) == impls

\* AfterNextImpl leaving no candidate
AfterNextImpl_clears(impls) == << >>

\* the candidate list after next_impl
AfterNextImpl(impls) == IF Len(impls) > 0 THEN Front(impls) ELSE impls

(***************************************************************************)
(* Frames.  kind is "resolve" (_resolve_impl about to run), "build" (a     *)
(* _build_impl resolving its needs one by one, i the next need to look at) *)
(* or "all" (resolve_all iterating over the candidate list, i the next     *)
(* index).                                                                 *)
(***************************************************************************)
Frame(kind, key, kwargs, ctx, default, reg, args) ==
    [kind |-> kind, key |-> key, kwargs |-> kwargs, ctx |-> ctx,
     default |-> default, reg |-> reg, i |-> 1, args |-> args,
     resolved |-> EmptyMap, acc |-> << >>]

ResolveFrame(key, kwargs, ctx, default) ==
    Frame("resolve", key, kwargs, ctx, default, NoRegistration, EmptyMap)

BuildFrame(registration, kwargs, ctx) ==
    Frame("build", registration.service, kwargs, ctx, NoneVal, registration,
          _match_defaults(getfullargspec(registration.builder)))

AllFrame(service, kwargs, ctx) ==
    Frame("all", service, kwargs, ctx, NoneVal, NoRegistration, EmptyMap)

\* the caller's frame once the callee has returned v
Receive(p, v) ==
    IF p.kind = "build"
    THEN [p EXCEPT !.resolved = Update(@, p.reg.needs[p.i].name :> v),
                   !.i = @ + 1]
    ELSE [p EXCEPT !.acc = Append(@, v), !.i = @ + 1]

(***************************************************************************)
(* The outcome of one step of thread t: its stack, contexts and call, the  *)
(* store, the singleton caches and the heap.                               *)
(***************************************************************************)
Now(t) ==
    [frames |-> frames[t], contexts |-> contexts[t], call |-> call[t],
     store |-> Store, singletons |-> singletons, objs |-> objs]

\* the top frame returns v to its caller, or ends the call
Return(o, rest, v) ==
    IF rest = << >>
    THEN [o EXCEPT !.frames = << >>, !.contexts = << >>,
                   !.call = [@ EXCEPT !.status = "returned", !.result = v]]
    ELSE [o EXCEPT !.frames = Front(rest) \o << Receive(Last(rest), v) >>]

\* Raise emptying the singleton caches on the way out
Raise_empties_caches(o, err, key) ==
    [o EXCEPT !.frames = << >>, !.contexts = << >>,
              !.singletons = [c \in DOMAIN @ |-> EmptyMap],
              !.call = [@ EXCEPT !.status = "raised", !.err = err,
                                 !.errkey = key]]

\* an exception unwinds the whole call
Raise(o, err, key) ==
    [o EXCEPT !.frames = << >>, !.contexts = << >>,
              !.call = [@ EXCEPT !.status = "raised", !.err = err,
                                 !.errkey = key]]

\* _should_auto_register without the test of the container's flag
_should_auto_register_unflagged(c, service_key, registration) ==
    registration = NoRegistration /\ IsClass(service_key)

\* _should_auto_register for every key that has no candidate left
_should_auto_register_missing(c, service_key, registration) == registration = NoRegistration /\ IsClass(service_key)

\* _should_auto_register answering no
_should_auto_register_never(c, service_key, registration) == FALSE

\* Container._should_auto_register
_should_auto_register(c, service_key, registration) ==
    IF auto_register[c] = FALSE
    THEN FALSE
    ELSE registration = NoRegistration /\ IsClass(service_key)

(***************************************************************************)
(* Container._resolve_impl, up to the call it ends with.                   *)
(***************************************************************************)
_resolve_impl(t) ==
    LET f == Last(frames[t])
        rest == Front(frames[t])
        c == call[t].c
        b == build_context(parent, entries, c, f.key, contexts[t], f.ctx)
        context == b.ctxs[b.ctx]
        impls == context.targets[f.key]
        registration == next_impl(impls)
        taken == [b.ctxs EXCEPT ![b.ctx].targets[f.key] = AfterNextImpl(impls)]
        o == Now(t)
    IN IF f.key \in DOMAIN singletons[c]
       THEN Return([o EXCEPT !.contexts = b.ctxs], rest, singletons[c][f.key])
       ELSE IF f.key \in DOMAIN context.cache
       THEN Return([o EXCEPT !.contexts = b.ctxs], rest, context.cache[f.key])
       ELSE IF is_generic_list(f.key)
       THEN LET b2 == build_context(parent, entries, c,
                                    generic_parameter(f.key), b.ctxs, 0)
            IN [o EXCEPT !.contexts = b2.ctxs,
                         !.frames = rest \o
                            << AllFrame(generic_parameter(f.key), EmptyMap,
                                        b2.ctx) >>]
       ELSE IF registration = NoRegistration /\ f.default # NoneVal
       THEN Return([o EXCEPT !.contexts = taken], rest, f.default)
       ELSE IF _should_auto_register(c, f.key, registration)
       THEN LET st == register_concrete_service(Store, c, f.key, transient,
                                                EmptyMap)
            IN IF st.err # ""
               THEN Raise([o EXCEPT !.contexts = taken], st.err, f.key)
               ELSE [o EXCEPT !.contexts = taken, !.store = st,
                              !.frames = rest \o
                                 << ResolveFrame(f.key, f.kwargs, 0,
                                                 f.default) >>]
       ELSE IF registration = NoRegistration
       THEN Raise(o, "MissingDependencyError", f.key)
       ELSE [o EXCEPT !.contexts = taken,
                      !.frames = rest \o
                         << BuildFrame(registration, f.kwargs, b.ctx) >>]

(***************************************************************************)
(* Container._build_impl.                                                  *)
(***************************************************************************)
\* IsResolved leaving out the parameters that need the registration's own
\* service key
IsResolved_not_own_key(registration, resolution_args, k) ==
    /\ k # "return"
    /\ k \notin DOMAIN registration.args
    /\ k \notin DOMAIN resolution_args
    /\ \A i \in DOMAIN registration.needs :
          registration.needs[i].name = k
              => registration.needs[i].key # registration.service

\* IsResolved taking every need, covered by an argument or not
IsResolved_every_need(registration, resolution_args, k) == k # "return"

\* the needs _build_impl resolves: not "return", not covered by a static
\* argument of the registration, not covered by a call-time argument
IsResolved(registration, resolution_args, k) ==
    /\ k # "return"
    /\ k \notin DOMAIN registration.args
    /\ k \notin DOMAIN resolution_args

\* target_args: the builder's parameter names without self
TargetArgs(spec) == Range(spec.args \o spec.kwonlyargs) \ {"self"}

\* AssembleArgs passing on every call-time argument
AssembleArgs_unfiltered(args, resolved, registration, kw, names) ==
    Update(Update(Update(args, resolved), registration.args), kw)

\* AssembleArgs applying the registration's static arguments last
AssembleArgs_static_last(args, resolved, registration, kw, names) ==
    Update(Update(Update(args, resolved), Restrict(kw, names)),
           registration.args)

\* the arguments of the call: defaults, then the resolved needs, then the
\* registration's static arguments, then the call-time arguments that name
\* a parameter of the builder
AssembleArgs(args, resolved, registration, resolution_args, target_args) ==
    Update(Update(Update(args, resolved), registration.args),
           Restrict(resolution_args, target_args))

\* registration.builder(**args): Python binds the keywords to the
\* parameters; a keyword that names no parameter, or a parameter without a
\* default left unbound, is a TypeError, and so is the call of a Protocol
BindError(builder, args) ==
    IF builder = "lambda"
    THEN DOMAIN args # {}
    ELSE \/ builder \in Protocols
         \/ DOMAIN args \ ParamNames(builder) # {}
         \/ \E i \in DOMAIN Params(builder) :
               /\ Params(builder)[i].dflt = empty
               /\ Params(builder)[i].name \notin DOMAIN args

Bound(builder, args) ==
    [n \in ParamNames(builder) |->
        IF n \in DOMAIN args THEN args[n] ELSE ParamOf(builder, n).dflt]

Instance(registration, args, resolution_args, resolved, born) ==
    [reg |-> registration.id, service |-> registration.service,
     builder |-> registration.builder,
     args |-> Bound(registration.builder, args), passed |-> args,
     kw |-> resolution_args, static |-> registration.args,
     resolved |-> resolved, elems |-> << >>, born |-> born]

ListObject(service, elems, born) ==
    [reg |-> 0, service |-> service, builder |-> "list", args |-> EmptyMap,
     passed |-> EmptyMap, kw |-> EmptyMap, static |-> EmptyMap,
     resolved |-> EmptyMap, elems |-> elems, born |-> born]

\* StoreSingleton keeping an entry the cache already holds
StoreSingleton_first_write(single, c, registration, result) ==
    IF registration.scope = singleton /\ registration.service \notin DOMAIN single[c]
    THEN [single EXCEPT ![c] = Update(@, registration.service :> result)]
    ELSE single

\* StoreSingleton ignoring the registration's scope
StoreSingleton_any_scope(single, c, registration, result) ==
    [single EXCEPT ![c] = Update(@, registration.service :> result)]

\* StoreSingleton writing to the cache of every container
StoreSingleton_every_container(single, c, registration, result) ==
    IF registration.scope = singleton
    THEN [d \in DOMAIN single |->
             Update(single[d], registration.service :> result)]
    ELSE single

\* the singleton caches after registration has built result in container c
StoreSingleton(single, c, registration, result) ==
    IF registration.scope = singleton
    THEN [single EXCEPT ![c] = Update(@, registration.service :> result)]
    ELSE single

\* StoreCached storing nothing
StoreCached_nothing(ctxs, ctx, registration, result) == ctxs

\* the context's cache after registration has built result
StoreCached(ctxs, ctx, registration, result) ==
    [ctxs EXCEPT ![ctx].cache = Update(@, registration.service :> result)]

_build_impl(t) ==
    LET f == Last(frames[t])
        rest == Front(frames[t])
        c == call[t].c
        registration == f.reg
        spec == getfullargspec(registration.builder)
        todo == {j \in DOMAIN registration.needs :
                    /\ j >= f.i
                    /\ IsResolved(registration, f.kwargs,
                                  registration.needs[j].name)}
        o == Now(t)
    IN IF todo # {}
       THEN LET j == CHOOSE x \in todo : \A y \in todo : x <= y
                need == registration.needs[j]
            IN [o EXCEPT !.frames = rest \o
                   << [f EXCEPT !.i = j],
                      ResolveFrame(need.key, f.kwargs, f.ctx,
                                   DictGet(f.args, need.name)) >>]
       ELSE LET args == AssembleArgs(f.args, f.resolved, registration,
                                     f.kwargs, TargetArgs(spec))
                result == IF registration.builder = "lambda"
                          THEN registration.instance
                          ELSE Obj(Len(objs) + 1)
                heap == IF registration.builder = "lambda"
                        THEN objs
                        ELSE Append(objs, Instance(registration, args,
                                                   f.kwargs, f.resolved,
                                                   ncalls))
                single == StoreSingleton(singletons, c, registration, result)
                cached == StoreCached(contexts[t], f.ctx, registration, result)
            IN IF BindError(registration.builder, args)
               THEN Raise(o, "TypeError", registration.service)
               ELSE Return([o EXCEPT !.objs = heap, !.singletons = single,
                                     !.contexts = cached], rest, result)

(***************************************************************************)
(* Container.resolve_all: the list comprehension over the candidate list   *)
(* of the context, the very list next_impl pops from.                      *)
(***************************************************************************)
all_registrations(ctxs, ctx, service) == ctxs[ctx].targets[service]

\* resolve_all raising when the key has no registration
resolve_all_raises_when_empty(t) ==
    LET f == Last(frames[t])
        rest == Front(frames[t])
        regs == all_registrations(contexts[t], f.ctx, f.key)
        o == Now(t)
    IN IF regs = << >>
       THEN Raise(o, "MissingDependencyError", f.key)
       ELSE IF f.i <= Len(regs)
       THEN [o EXCEPT !.frames = frames[t] \o
                         << BuildFrame(regs[f.i], f.kwargs, f.ctx) >>]
       ELSE Return([o EXCEPT !.objs = Append(objs,
                                        ListObject(f.key, f.acc, ncalls))],
                   rest, Obj(Len(objs) + 1))

resolve_all(t) ==
    LET f == Last(frames[t])
        rest == Front(frames[t])
        regs == all_registrations(contexts[t], f.ctx, f.key)
        o == Now(t)
    IN IF f.i <= Len(regs)
       THEN [o EXCEPT !.frames = frames[t] \o
                         << BuildFrame(regs[f.i], f.kwargs, f.ctx) >>]
       ELSE Return([o EXCEPT !.objs = Append(objs,
                                        ListObject(f.key, f.acc, ncalls))],
                   rest, Obj(Len(objs) + 1))

(***************************************************************************)
(* Actions.  A top-level call opens its context and pushes its first       *)
(* frame; the three step actions run the top frame.                        *)
(***************************************************************************)
Take(t, o) ==
    /\ frames' = [frames EXCEPT ![t] = o.frames]
    /\ contexts' = [contexts EXCEPT ![t] = o.contexts]
    /\ call' = [call EXCEPT ![t] = o.call]
    /\ entries' = o.store.entries
    /\ localns' = o.store.localns
    /\ regCount' = o.store.count
    /\ singletons' = o.singletons
    /\ objs' = o.objs
    /\ returned' = IF o.call.status = "returned"
                   THEN Append(returned,
                               [n |-> ncalls, op |-> o.call.op, c |-> o.call.c,
                                key |-> o.call.key, result |-> o.call.result])
                   ELSE returned
    /\ UNCHANGED << parent, auto_register, nregs, ncalls >>

Running(t, kind) ==
    /\ call[t].status = "running"
    /\ frames[t] # << >>
    /\ Last(frames[t]).kind = kind

ResolveImplStep(t) == Running(t, "resolve") /\ Take(t, _resolve_impl(t))

BuildImplStep(t) == Running(t, "build") /\ Take(t, _build_impl(t))

ResolveAllStep(t) == Running(t, "all") /\ Take(t, resolve_all(t))

StartCall(t, op, c, key, kwargs, frame) ==
    /\ call' = [call EXCEPT ![t] =
                  [IdleCall EXCEPT !.op = op, !.c = c, !.key = key,
                      !.kwargs = kwargs, !.status = "running",
                      !.first = Len(objs), !.regs = regCount,
                      !.cached = key \in DOMAIN singletons[c]]]
    /\ contexts' = [contexts EXCEPT ![t] =
                      << _ResolutionContext(key, Get(c, key)) >>]
    /\ frames' = [frames EXCEPT ![t] = << frame >>]
    /\ ncalls' = ncalls + 1
    /\ UNCHANGED << parent, entries, localns, singletons, auto_register,
                    regCount, nregs, objs, returned >>

\* Container.resolve(service_key, **kwargs)
Resolve(t, c, service_key, kwargs, maxCalls) ==
    /\ Idle(t)
    /\ ncalls < maxCalls
    /\ StartCall(t, "resolve", c, service_key, kwargs,
                 ResolveFrame(service_key, kwargs, 1, NoneVal))

\* Container.resolve_all(service, **kwargs)
ResolveAll(t, c, service, kwargs, maxCalls) ==
    /\ Idle(t)
    /\ ncalls < maxCalls
    /\ StartCall(t, "resolve_all", c, service, kwargs,
                 AllFrame(service, kwargs, 1))

(***************************************************************************)
(* Container.instantiate(service_key, **kwargs): a transient registration  *)
(* of the class as itself that is put in no scope (its id is 0), a context *)
(* holding only that registration, and _build_impl.                        *)
(***************************************************************************)
\* the registration of instantiate made singleton-scoped
InstantiateRegistration_singleton(c, service_key) ==
    _Registration(0, service_key, singleton, service_key,
                  _get_needs_for_ctor(localns[c], service_key), EmptyMap,
                  empty)

InstantiateRegistration(c, service_key) ==
    _Registration(0, service_key, transient, service_key,
                  _get_needs_for_ctor(localns[c], service_key), EmptyMap,
                  empty)

Instantiate(t, c, service_key, kwargs, maxCalls) ==
    /\ Idle(t)
    /\ ncalls < maxCalls
    /\ LET started == [IdleCall EXCEPT !.op = "instantiate", !.c = c,
                          !.key = service_key, !.kwargs = kwargs,
                          !.first = Len(objs), !.regs = regCount,
                          !.cached = service_key \in DOMAIN singletons[c]]
       IN IF NameError(localns[c], service_key)
          THEN /\ call' = [call EXCEPT ![t] =
                             [started EXCEPT !.status = "raised",
                                 !.err = "InvalidForwardReferenceError",
                                 !.errkey = service_key]]
               /\ UNCHANGED << contexts, frames >>
          ELSE LET registration == InstantiateRegistration(c, service_key)
               IN /\ call' = [call EXCEPT ![t] =
                                [started EXCEPT !.status = "running"]]
                  /\ contexts' = [contexts EXCEPT ![t] =
                          << _ResolutionContext(service_key,
                                                << registration >>) >>]
                  /\ frames' = [frames EXCEPT ![t] =
                          << BuildFrame(registration, kwargs, 1) >>]
    /\ ncalls' = ncalls + 1
    /\ UNCHANGED << parent, entries, localns, singletons, auto_register,
                    regCount, nregs, objs, returned >>

(***************************************************************************)
(* Spec: one container and its children, implementations of Filter         *)
(* registered in any order and scope, resolve and resolve_all of Filter.   *)
(***************************************************************************)
FilterOptions ==
    {RegOption("Filter", factory, empty, scope, EmptyMap) :
        factory \in {"NullFilter", "Is_A"}, scope \in Scope}

Next ==
    \E t \in Threads :
        \/ \E c \in Containers, o \in FilterOptions : Register(t, c, o, MaxRegs)
        \/ \E c \in Containers : Child(t, c, MaxChildren)
        \/ \E c \in Containers : Resolve(t, c, "Filter", EmptyMap, MaxCalls)
        \/ \E c \in Containers : ResolveAll(t, c, "Filter", EmptyMap, MaxCalls)
        \/ ResolveImplStep(t)
        \/ BuildImplStep(t)
        \/ ResolveAllStep(t)

Spec == Init /\ [][Next]_vars

(***************************************************************************)
(* SpecGraph: one container; Dep, SubSystemA, Root and BroadcastSpeaker    *)
(* registered as themselves, Wrapper registered under Dep, a Filter; one   *)
(* resolve of any of these keys or of the list of Filter.                  *)
(***************************************************************************)
GraphOptions ==
    {RegOption(service, "empty", empty, transient, EmptyMap) :
        service \in {"Dep", "SubSystemA", "Root", "BroadcastSpeaker"}}
    \cup {RegOption("Dep", "empty", empty, singleton, EmptyMap),
          RegOption("Dep", "Wrapper", empty, transient, EmptyMap),
          RegOption("Filter", "NullFilter", empty, transient, EmptyMap)}

GraphKeys == {"Dep", "SubSystemA", "Root", "BroadcastSpeaker", "List_Filter"}

NextGraph ==
    \E t \in Threads :
        \/ \E o \in GraphOptions : Register(t, 1, o, MaxGraphRegs)
        \/ \E key \in GraphKeys : Resolve(t, 1, key, EmptyMap, MaxGraphCalls)
        \/ ResolveImplStep(t)
        \/ BuildImplStep(t)
        \/ ResolveAllStep(t)

SpecGraph == Init /\ [][NextGraph]_vars

(***************************************************************************)
(* SpecArgs: one container; Dep, Client and Doer registered as themselves, *)
(* Client and Doer with or without static arguments, int and str | None    *)
(* registered with an instance; one resolve of Client or Doer with or      *)
(* without call-time arguments.                                            *)
(***************************************************************************)
StaticArgs == {EmptyMap, "b" :> Lit(7), "c" :> Lit(8)}

ArgOptions ==
    {RegOption(service, "empty", empty, transient, args) :
        service \in {"Client", "Doer"}, args \in StaticArgs}
    \cup {RegOption("Dep", "empty", empty, transient, EmptyMap),
          RegOption("int", "empty", Lit(3), transient, EmptyMap),
          RegOption("OptStr", "empty", Lit(4), transient, EmptyMap)}

CallArgs ==
    {EmptyMap, "b" :> Lit(5), "c" :> Lit(6), ("b" :> Lit(5)) @@ ("c" :> Lit(6)),
     ("c" :> Lit(6)) @@ ("zz" :> Lit(5))}

NextArgs ==
    \E t \in Threads :
        \/ \E o \in ArgOptions : Register(t, 1, o, MaxArgRegs)
        \/ \E key \in {"Client", "Doer"}, kwargs \in CallArgs :
              Resolve(t, 1, key, kwargs, MaxArgCalls)
        \/ ResolveImplStep(t)
        \/ BuildImplStep(t)

SpecArgs == Init /\ [][NextArgs]_vars

(***************************************************************************)
(* SpecSingleton: one container, implementations of Filter registered in   *)
(* any order and scope, a longer sequence of resolve and resolve_all.      *)
(***************************************************************************)
NextSingleton ==
    \E t \in Threads :
        \/ \E o \in FilterOptions : Register(t, 1, o, MaxSingleRegs)
        \/ Resolve(t, 1, "Filter", EmptyMap, MaxSingleCalls)
        \/ ResolveAll(t, 1, "Filter", EmptyMap, MaxSingleCalls)
        \/ ResolveImplStep(t)
        \/ BuildImplStep(t)
        \/ ResolveAllStep(t)

SpecSingleton == Init /\ [][NextSingleton]_vars

(***************************************************************************)
(* SpecScoped: a container, its children and theirs; SubSystemA, which     *)
(* needs Dep, and Dep registered in any of them, Dep as itself or with an  *)
(* instance; resolve of either key in any of them.                         *)
(***************************************************************************)
ScopedOptions ==
    {RegOption("SubSystemA", "empty", empty, transient, EmptyMap)}
    \cup {RegOption("Dep", "empty", empty, scope, EmptyMap) : scope \in Scope}
    \cup {RegOption("Dep", "empty", Ext(1), transient, EmptyMap)}

NextScoped ==
    \E t \in Threads :
        \/ \E c \in Containers, o \in ScopedOptions :
              Register(t, c, o, MaxScopedRegs)
        \/ \E c \in Containers : Child(t, c, MaxScopedChildren)
        \/ \E c \in Containers, key \in {"SubSystemA", "Dep"} :
              Resolve(t, c, key, EmptyMap, MaxScopedCalls)
        \/ ResolveImplStep(t)
        \/ BuildImplStep(t)

SpecScoped == Init /\ [][NextScoped]_vars

(***************************************************************************)
(* SpecInstance: one container; Dep registered as itself in either scope   *)
(* or with an instance, whatever scope is asked for; resolve and           *)
(* resolve_all of Dep.                                                     *)
(***************************************************************************)
InstanceOptions ==
    {RegOption("Dep", "empty", empty, scope, EmptyMap) : scope \in Scope}
    \cup {RegOption("Dep", "empty", Ext(1), transient, EmptyMap),
          RegOption("Dep", "empty", Ext(2), singleton, EmptyMap)}

NextInstance ==
    \E t \in Threads :
        \/ \E o \in InstanceOptions : Register(t, 1, o, MaxInstRegs)
        \/ Resolve(t, 1, "Dep", EmptyMap, MaxInstCalls)
        \/ ResolveAll(t, 1, "Dep", EmptyMap, MaxInstCalls)
        \/ ResolveImplStep(t)
        \/ BuildImplStep(t)
        \/ ResolveAllStep(t)

SpecInstance == Init /\ [][NextInstance]_vars

(***************************************************************************)
(* SpecRegister: a container, auto-registering or not, and a child;        *)
(* RefClient, whose parameter dep is annotated with the string             *)
(* 'Dependency'; the class Dependency and the literal string 'Dependency'  *)
(* registered as keys; registrations that are not valid (a string key with *)
(* neither factory nor instance, a string as the factory); resolve of      *)
(* RefClient and of Dependency.                                            *)
(***************************************************************************)
InitRegister == \E auto \in BOOLEAN : InitWith(auto)

GoodOptions ==
    {RegOption("RefClient", "empty", empty, transient, EmptyMap),
     RegOption("Dependency", "empty", empty, transient, EmptyMap),
     RegOption("Dependency", "empty", Ext(1), transient, EmptyMap),
     RegOption("'Dependency'", "DataAccessLayer", empty, singleton, EmptyMap),
     RegOption("'Dependency'", "empty", Ext(2), transient, EmptyMap)}

BadOptions ==
    {RegOption("'Dependency'", "empty", empty, transient, EmptyMap),
     RegOption("Dependency", "'Dependency'", empty, transient, EmptyMap)}

NextRegister ==
    \E t \in Threads :
        \/ \E c \in Containers, o \in GoodOptions \cup BadOptions :
              Register(t, c, o, MaxRefRegs)
        \/ \E c \in Containers : Child(t, c, MaxRefChildren)
        \/ \E c \in Containers, key \in {"RefClient", "Dependency"} :
              Resolve(t, c, key, EmptyMap, MaxRefCalls)
        \/ ResolveImplStep(t)
        \/ BuildImplStep(t)

SpecRegister == InitRegister /\ [][NextRegister]_vars

(***************************************************************************)
(* SpecAuto: a container created with auto_register=True and a child; Dep  *)
(* and SubSystemA registered by hand or not at all; resolve of classes     *)
(* that need each other (Root, SubSystemA, Dep), of a class with a         *)
(* defaulted parameter (Defaulted) and of a Protocol (NotInitializable).   *)
(***************************************************************************)
InitAuto == InitWith(TRUE)

AutoOptions ==
    {RegOption("Dep", "empty", empty, scope, EmptyMap) : scope \in Scope}
    \cup {RegOption("SubSystemA", "empty", empty, transient, EmptyMap)}

AutoKeys == {"Dep", "SubSystemA", "Root", "Defaulted", "NotInitializable"}

NextAuto ==
    \E t \in Threads :
        \/ \E c \in Containers, o \in AutoOptions :
              Register(t, c, o, MaxAutoRegs)
        \/ \E c \in Containers : Child(t, c, MaxAutoChildren)
        \/ \E c \in Containers, key \in AutoKeys :
              Resolve(t, c, key, EmptyMap, MaxAutoCalls)
        \/ ResolveImplStep(t)
        \/ BuildImplStep(t)

SpecAuto == InitAuto /\ [][NextAuto]_vars

(***************************************************************************)
(* SpecList: one container; Filter registered with NullFilter and with     *)
(* Is_A (which needs a Filter); BroadcastSpeaker, with one parameter that  *)
(* is a list of Filter, and Relay, with two; one resolve of either.        *)
(***************************************************************************)
NextList ==
    \E t \in Threads :
        \/ \E service \in {"BroadcastSpeaker", "Relay"} :
              Register(t, 1, RegOption(service, "empty", empty, transient,
                                       EmptyMap), MaxListRegs)
        \/ \E impl \in {"NullFilter", "Is_A"} :
              Register(t, 1, RegOption("Filter", impl, empty, transient,
                                       EmptyMap), MaxListRegs)
        \/ \E key \in {"BroadcastSpeaker", "Relay"} :
              Resolve(t, 1, key, EmptyMap, MaxListCalls)
        \/ ResolveImplStep(t)
        \/ BuildImplStep(t)
        \/ ResolveAllStep(t)

SpecList == Init /\ [][NextList]_vars

(***************************************************************************)
(* SpecOverride: one container; Author, which needs a Scribe, and Scribe,  *)
(* in either scope; both constructors have a parameter b: int = 10; int    *)
(* registered with an instance or not; resolve of either with or without   *)
(* the call-time argument b.                                               *)
(***************************************************************************)
NextOverride ==
    \E t \in Threads :
        \/ \E scope \in Scope :
              Register(t, 1, RegOption("Scribe", "empty", empty, scope,
                                       EmptyMap), MaxOverrideRegs)
        \/ Register(t, 1, RegOption("Author", "empty", empty, transient,
                                    EmptyMap), MaxOverrideRegs)
        \/ Register(t, 1, RegOption("int", "empty", Lit(3), transient,
                                    EmptyMap), MaxOverrideRegs)
        \/ \E key \in {"Author", "Scribe"}, kwargs \in {EmptyMap, "b" :> Lit(5)} :
              Resolve(t, 1, key, kwargs, MaxOverrideCalls)
        \/ ResolveImplStep(t)
        \/ BuildImplStep(t)

SpecOverride == Init /\ [][NextOverride]_vars

(***************************************************************************)
(* SpecCaches: a container, its children and theirs; Dep registered in any *)
(* of them in either scope, SubSystemA (which needs Dep) as itself; a      *)
(* sequence of resolve calls of either key on any of the containers.       *)
(***************************************************************************)
NextCaches ==
    \E t \in Threads :
        \/ \E c \in Containers, scope \in Scope :
              Register(t, c, RegOption("Dep", "empty", empty, scope, EmptyMap),
                       MaxCacheRegs)
        \/ \E c \in Containers :
              Register(t, c, RegOption("SubSystemA", "empty", empty, transient,
                                       EmptyMap), MaxCacheRegs)
        \/ \E c \in Containers : Child(t, c, MaxCacheChildren)
        \/ \E c \in Containers, key \in {"SubSystemA", "Dep"} :
              Resolve(t, c, key, EmptyMap, MaxCacheCalls)
        \/ ResolveImplStep(t)
        \/ BuildImplStep(t)

SpecCaches == Init /\ [][NextCaches]_vars

(***************************************************************************)
(* SpecInstantiate: one container; Dep and SubSystemA (which needs Dep)    *)
(* registered as themselves in either scope or not at all; instantiate of  *)
(* Dep, of SubSystemA and of Root (which needs both), resolve of the       *)
(* registered keys.                                                        *)
(***************************************************************************)
NextInstantiate ==
    \E t \in Threads :
        \/ \E service \in {"Dep", "SubSystemA"}, scope \in Scope :
              Register(t, 1, RegOption(service, "empty", empty, scope,
                                       EmptyMap), MaxNewRegs)
        \/ \E key \in {"Dep", "SubSystemA", "Root"} :
              Instantiate(t, 1, key, EmptyMap, MaxNewCalls)
        \/ \E key \in {"Dep", "SubSystemA"} :
              Resolve(t, 1, key, EmptyMap, MaxNewCalls)
        \/ ResolveImplStep(t)
        \/ BuildImplStep(t)

SpecInstantiate == Init /\ [][NextInstantiate]_vars

(***************************************************************************)
(* _build_impl in two steps, for the specifications in which threads       *)
(* interleave: the builder call (lines 489-505) and what follows it, the   *)
(* write to the singleton cache and to the context's cache (507-512).      *)
(* Another thread can run between the two.  Every other step reads or      *)
(* writes the shared state (the registry and the singleton caches) at most *)
(* once, so the steps taken one at a time cover the interleavings of the   *)
(* code.                                                                   *)
(***************************************************************************)
BuiltFrame(f, result) ==
    [kind |-> "built", reg |-> f.reg, ctx |-> f.ctx, result |-> result]

_build_impl_builder(t) ==
    LET f == Last(frames[t])
        rest == Front(frames[t])
        registration == f.reg
        whole == _build_impl(t)
        result == IF registration.builder = "lambda"
                  THEN registration.instance
                  ELSE Obj(Len(objs) + 1)
    IN IF whole.frames # << >> /\ Len(whole.frames) > Len(frames[t])
       THEN whole
       ELSE IF whole.call.status = "raised"
       THEN whole
       ELSE [Now(t) EXCEPT !.objs = whole.objs,
                           !.frames = rest \o << BuiltFrame(f, result) >>]

_build_impl_store(t) ==
    LET f == Last(frames[t])
        rest == Front(frames[t])
        o == Now(t)
    IN Return([o EXCEPT !.singletons = StoreSingleton(singletons, call[t].c,
                                                      f.reg, f.result),
                        !.contexts = StoreCached(contexts[t], f.ctx, f.reg,
                                                 f.result)],
              rest, f.result)

BuilderStep(t) == Running(t, "build") /\ Take(t, _build_impl_builder(t))

StoreStep(t) == Running(t, "built") /\ Take(t, _build_impl_store(t))

AllIdle == \A t \in AllThreads : Idle(t)

(***************************************************************************)
(* SpecRace: one container and two threads; Dep registered as itself in    *)
(* either scope and SubSystemA, which needs Dep, while no call is running; *)
(* resolve of Dep and of SubSystemA by either thread, the steps of the two *)
(* calls interleaved.                                                      *)
(***************************************************************************)
NextRace ==
    \/ \E scope \in Scope :
          /\ AllIdle
          /\ Register(1, 1, RegOption("Dep", "empty", empty, scope, EmptyMap),
                      MaxRaceRegs)
    \/ /\ AllIdle
       /\ Register(1, 1, RegOption("SubSystemA", "empty", empty, transient,
                                   EmptyMap), MaxRaceRegs)
    \/ \E t \in AllThreads :
          \/ \E key \in {"Dep", "SubSystemA"} :
                Resolve(t, 1, key, EmptyMap, MaxRaceCalls)
          \/ ResolveImplStep(t)
          \/ BuilderStep(t)
          \/ StoreStep(t)

SpecRace == Init /\ [][NextRace]_vars

(***************************************************************************)
(* SpecInterleaved: one container and two threads; Filter registered with  *)
(* NullFilter and with Is_A (which needs a Filter), all transient and all  *)
(* before the first call; resolve of Filter by either thread, the steps of *)
(* the two calls interleaved.  No register call runs beside a resolve and  *)
(* the container does not auto-register.                                   *)
(***************************************************************************)
NextInterleaved ==
    \/ \E impl \in {"NullFilter", "Is_A"} :
          /\ ncalls = 0
          /\ Register(1, 1, RegOption("Filter", impl, empty, transient,
                                      EmptyMap), MaxMixRegs)
    \/ \E t \in AllThreads :
          \/ Resolve(t, 1, "Filter", EmptyMap, MaxMixCalls)
          \/ ResolveImplStep(t)
          \/ BuilderStep(t)
          \/ StoreStep(t)

SpecInterleaved == Init /\ [][NextInterleaved]_vars

(***************************************************************************)
(* SpecCycle: one container without auto-registration and no list-typed    *)
(* parameter; Filter registered with NullFilter or Is_A (which needs a     *)
(* Filter), Dep as itself or with Wrapper (which needs a SubSystemA), and  *)
(* SubSystemA (which needs a Dep), so that builders can need their own key *)
(* or each other's; resolve of any of the three keys.  A call that has     *)
(* begun keeps running: resolution is synchronous, so the next step of a   *)
(* running call is always taken.                                           *)
(***************************************************************************)
CycleOptions ==
    {RegOption("Filter", impl, empty, transient, EmptyMap) :
        impl \in {"NullFilter", "Is_A"}}
    \cup {RegOption("Dep", impl, empty, scope, EmptyMap) :
             impl \in {"empty", "Wrapper"}, scope \in Scope}
    \cup {RegOption("SubSystemA", "empty", empty, transient, EmptyMap)}

StepCycle == \E t \in Threads : ResolveImplStep(t) \/ BuildImplStep(t)

NextCycle ==
    \/ \E t \in Threads :
          \/ \E o \in CycleOptions : Register(t, 1, o, MaxCycleRegs)
          \/ \E key \in {"Filter", "Dep", "SubSystemA"} :
                Resolve(t, 1, key, EmptyMap, MaxCycleCalls)
    \/ StepCycle

SpecCycle == Init /\ [][NextCycle]_vars /\ WF_vars(StepCycle)

(***************************************************************************)
(* SpecFrame: a container without auto-registration and a child; Filter    *)
(* registered with NullFilter and with Is_A in either scope; resolve and   *)
(* resolve_all of Filter and instantiate of Is_A and of NullFilter, two    *)
(* calls one after the other.                                              *)
(***************************************************************************)
NextFrame ==
    \E t \in Threads :
        \/ \E c \in Containers, o \in FilterOptions :
              Register(t, c, o, MaxFrameRegs)
        \/ \E c \in Containers : Child(t, c, MaxFrameChildren)
        \/ \E c \in Containers :
              Resolve(t, c, "Filter", EmptyMap, MaxFrameCalls)
        \/ \E c \in Containers :
              ResolveAll(t, c, "Filter", EmptyMap, MaxFrameCalls)
        \/ \E c \in Containers, key \in {"Is_A", "NullFilter"} :
              Instantiate(t, c, key, EmptyMap, MaxFrameCalls)
        \/ ResolveImplStep(t)
        \/ BuildImplStep(t)
        \/ ResolveAllStep(t)

SpecFrame == Init /\ [][NextFrame]_vars

(***************************************************************************)
(* SpecShared: one container; Dep in either scope, SubSystemA (which needs *)
(* a Dep) and Panel, which needs a Dep and a list of SubSystemA; resolve   *)
(* of Panel and of SubSystemA.                                             *)
(***************************************************************************)
SharedOptions ==
    {RegOption("Dep", "empty", empty, scope, EmptyMap) : scope \in Scope}
    \cup {RegOption(service, "empty", empty, transient, EmptyMap) :
             service \in {"SubSystemA", "Panel"}}

NextShared ==
    \E t \in Threads :
        \/ \E o \in SharedOptions : Register(t, 1, o, MaxSharedRegs)
        \/ \E key \in {"Panel", "SubSystemA"} :
              Resolve(t, 1, key, EmptyMap, MaxSharedCalls)
        \/ ResolveImplStep(t)
        \/ BuildImplStep(t)
        \/ ResolveAllStep(t)

SpecShared == Init /\ [][NextShared]_vars

(***************************************************************************)
(* SpecInherit: a container and its child; Dep registered in either of     *)
(* them in either scope, SubSystemA (which needs Dep) and Filter with Is_A *)
(* (which needs a Filter) or NullFilter; two resolve calls of any of the   *)
(* keys on either container.                                               *)
(***************************************************************************)
InheritOptions ==
    {RegOption("Dep", "empty", empty, scope, EmptyMap) : scope \in Scope}
    \cup {RegOption("SubSystemA", "empty", empty, transient, EmptyMap)}
    \cup {RegOption("Filter", impl, empty, transient, EmptyMap) :
             impl \in {"NullFilter", "Is_A"}}

NextInherit ==
    \E t \in Threads :
        \/ \E c \in Containers, o \in InheritOptions :
              Register(t, c, o, MaxInheritRegs)
        \/ \E c \in Containers : Child(t, c, MaxInheritChildren)
        \/ \E c \in Containers, key \in {"Dep", "SubSystemA", "Filter"} :
              Resolve(t, c, key, EmptyMap, MaxInheritCalls)
        \/ ResolveImplStep(t)
        \/ BuildImplStep(t)

SpecInherit == Init /\ [][NextInherit]_vars

(***************************************************************************)
(* SpecKin: an auto-registering container, its children and theirs; Dep    *)
(* registered by hand in one of them or nowhere; resolve of Dep and of     *)
(* SubSystemA (which needs Dep) on any of the containers.                  *)
(***************************************************************************)
NextKin ==
    \E t \in Threads :
        \/ \E c \in Containers :
              Register(t, c, RegOption("Dep", "empty", empty, transient,
                                       EmptyMap), MaxKinRegs)
        \/ \E c \in Containers : Child(t, c, MaxKinChildren)
        \/ \E c \in Containers, key \in {"Dep", "SubSystemA"} :
              Resolve(t, c, key, EmptyMap, MaxKinCalls)
        \/ ResolveImplStep(t)
        \/ BuildImplStep(t)

SpecKin == InitAuto /\ [][NextKin]_vars

(***************************************************************************)
(* SpecFail: one container without auto-registration; Dep and SubSystemA   *)
(* (which needs Dep) in either scope and Root, which needs a Dep and then  *)
(* a SubSystemA, each registered or not; two resolve calls of any of them. *)
(***************************************************************************)
FailOptions ==
    {RegOption(service, "empty", empty, scope, EmptyMap) :
        service \in {"Dep", "SubSystemA"}, scope \in Scope}
    \cup {RegOption("Root", "empty", empty, transient, EmptyMap)}

NextFail ==
    \E t \in Threads :
        \/ \E o \in FailOptions : Register(t, 1, o, MaxFailRegs)
        \/ \E key \in {"Dep", "SubSystemA", "Root"} :
              Resolve(t, 1, key, EmptyMap, MaxFailCalls)
        \/ ResolveImplStep(t)
        \/ BuildImplStep(t)

SpecFail == Init /\ [][NextFail]_vars

(***************************************************************************)
(* SpecEmpty: a container created with or without auto-registration and a *)
(* child; Filter registered with NullFilter in either of them or nowhere,  *)
(* Dep never; resolve_all of Filter and of Dep on either container.        *)
(***************************************************************************)
NextEmpty ==
    \E t \in Threads :
        \/ \E c \in Containers :
              Register(t, c, RegOption("Filter", "NullFilter", empty,
                                       transient, EmptyMap), MaxEmptyRegs)
        \/ \E c \in Containers : Child(t, c, MaxEmptyChildren)
        \/ \E c \in Containers, key \in {"Filter", "Dep"} :
              ResolveAll(t, c, key, EmptyMap, MaxEmptyCalls)
        \/ BuildImplStep(t)
        \/ ResolveAllStep(t)

SpecEmpty == InitRegister /\ [][NextEmpty]_vars

(***************************************************************************)
(* Properties.                                                             *)
(***************************************************************************)
\* thread t's call of op has just returned
Done(t, op) == call[t].op = op /\ call[t].status = "returned"

\* the registrations the call's container sees for the call's key
Visible(t) == Get(call[t].c, call[t].key)

AllTransient(regs) == \A i \in DOMAIN regs : regs[i].scope = transient

\* v is an instance built by registration r
BuiltBy(v, r) == v.t = "obj" /\ objs[v.n].reg = r.id

\* v was built during thread t's current call
Fresh(t, v) == v.t = "obj" /\ v.n > call[t].first

\* C2: when every registration a container sees for K is transient,
\* resolve(K) returns an instance built by the most recently registered one.
C2_NewestWins ==
    \A t \in Threads :
        (Done(t, "resolve") /\ Visible(t) # << >> /\ AllTransient(Visible(t)))
            => BuiltBy(call[t].result, Last(Visible(t)))

C2_Witness ==
    \E t \in Threads :
        /\ Done(t, "resolve")
        /\ Len(entries[call[t].c][call[t].key]) >= 2
        /\ AllTransient(Visible(t))
        /\ BuiltBy(call[t].result, Last(entries[call[t].c][call[t].key]))

\* C3: resolve_all(K) returns one instance per registration visible for K,
\* the i-th element built by the i-th registration, whatever the builders
\* need.
C3_OnePerRegistration ==
    \A t \in Threads :
        Done(t, "resolve_all") =>
            LET elems == objs[call[t].result.n].elems
            IN /\ Len(elems) = Len(Visible(t))
               /\ \A i \in DOMAIN elems : BuiltBy(elems[i], Visible(t)[i])

\* C5: a resolve of a key whose registrations are all transient returns an
\* instance built during that very call.
C5_TransientIsFresh ==
    \A t \in Threads :
        (Done(t, "resolve") /\ AllTransient(Visible(t)))
            => Fresh(t, call[t].result)

C5_Witness ==
    \E t \in Threads :
        /\ Done(t, "resolve")
        /\ AllTransient(Visible(t))
        /\ Len(returned) = 2
        /\ returned[1].op = "resolve"
        /\ returned[1].c = call[t].c
        /\ returned[1].key = call[t].key
        /\ returned[1].result # call[t].result

\* thread t's call of op has ended, by returning or by raising
Ended(t, op) == call[t].op = op /\ call[t].status \in {"returned", "raised"}

\* the names of registration r's parameters that need key
ParamsFor(r, key) ==
    {r.needs[i].name : i \in {j \in DOMAIN r.needs : r.needs[j].key = key}}

\* regs is a chain under key: the oldest needs no key, every other does
IsChain(regs, key) ==
    /\ regs # << >>
    /\ ParamsFor(regs[1], key) = {}
    /\ \A j \in 2..Len(regs) : ParamsFor(regs[j], key) # {}

\* v is built in t's call by the newest of regs, and its parameters of key
\* hold the same for the rest of regs
RECURSIVE Linked(_, _, _, _)
Linked(t, regs, key, v) ==
    /\ Fresh(t, v)
    /\ BuiltBy(v, Last(regs))
    /\ \A name \in ParamsFor(Last(regs), key) :
          Linked(t, Front(regs), key, objs[v.n].args[name])

\* how many instances registration r has built during t's call
BuiltInCall(t, r) ==
    Cardinality({n \in (call[t].first + 1)..Len(objs) : objs[n].reg = r.id})

\* v is built by the newest of regs, in t's call or before, and its
\* parameters of key hold the same for the rest of regs
RECURSIVE LinkedOnce(_, _, _)
LinkedOnce(regs, key, v) ==
    /\ BuiltBy(v, Last(regs))
    /\ \A name \in ParamsFor(Last(regs), key) :
          LinkedOnce(Front(regs), key, objs[v.n].args[name])

\* C7 as stated: resolve(K) on a chain r1..rn returns rn's instance linked
\* down to r1's, no registration built twice, and raises nothing.
C7_ChainAlways ==
    \A t \in Threads :
        (Ended(t, "resolve") /\ IsChain(Visible(t), call[t].key)) =>
            /\ call[t].status = "returned"
            /\ LinkedOnce(Visible(t), call[t].key, call[t].result)
            /\ \A i \in DOMAIN Visible(t) : BuiltInCall(t, Visible(t)[i]) <= 1

\* C7 amended: when the singleton cache holds nothing for K as the call
\* begins, resolve(K) on a chain r1..rn returns the instance rn builds in
\* the call, linked down to r1's, each registration built exactly once, and
\* raises nothing.
C7_Chain ==
    \A t \in Threads :
        (Ended(t, "resolve") /\ IsChain(Visible(t), call[t].key)
            /\ ~call[t].cached) =>
            /\ call[t].status = "returned"
            /\ Linked(t, Visible(t), call[t].key, call[t].result)
            /\ \A i \in DOMAIN Visible(t) : BuiltInCall(t, Visible(t)[i]) = 1

C7_Witness ==
    \E t \in Threads :
        /\ Done(t, "resolve")
        /\ IsChain(Visible(t), call[t].key)
        /\ Len(Visible(t)) = 3
        /\ ~call[t].cached
        /\ Linked(t, Visible(t), call[t].key, call[t].result)

Own(c, key) == entries[c][key]

BuiltByOneOf(v, regs) == \E i \in DOMAIN regs : BuiltBy(v, regs[i])

\* the call's container inherits registrations of the call's key
Inherits(t) ==
    /\ parent[call[t].c] # 0
    /\ Get(parent[call[t].c], call[t].key) # << >>

\* the call's container is a child that registers the call's key, as one of
\* its ancestors does
Overrides(t) == Inherits(t) /\ Own(call[t].c, call[t].key) # << >>

\* the call's container has a child that registers the call's key too
Overridden(t) ==
    /\ Own(call[t].c, call[t].key) # << >>
    /\ \E k \in Containers :
          parent[k] = call[t].c /\ Own(k, call[t].key) # << >>

\* C10 as stated: when a child and its parent both register K, the child's
\* resolve(K) is built by a registration of the child and the parent's by
\* one of the parent.
C10_OverrideAlways ==
    \A t \in Threads :
        Done(t, "resolve") =>
            /\ Overrides(t)
                  => BuiltByOneOf(call[t].result, Own(call[t].c, call[t].key))
            /\ Overridden(t)
                  => BuiltByOneOf(call[t].result, Own(call[t].c, call[t].key))

\* C10 amended: the same, provided a resolving container that inherits
\* registrations of K holds nothing for K in its singleton cache as the
\* call begins.
C10_Override ==
    \A t \in Threads :
        (/\ Done(t, "resolve")
         /\ Overrides(t) \/ Overridden(t)
         /\ Inherits(t) => ~call[t].cached)
        => BuiltByOneOf(call[t].result, Own(call[t].c, call[t].key))

\* the child's resolve returns its own registration's instance although the
\* parent registered afterwards
C10_Witness ==
    \E t \in Threads :
        /\ Done(t, "resolve")
        /\ Overrides(t)
        /\ ~call[t].cached
        /\ BuiltByOneOf(call[t].result, Own(call[t].c, call[t].key))
        /\ Last(Get(parent[call[t].c], call[t].key)).id
              > Last(Own(call[t].c, call[t].key)).id

(***************************************************************************)
(* Missing dependencies.                                                   *)
(***************************************************************************)
\* the key thread t's pending _resolve_impl is called with
PendingKey(t) == Last(frames[t]).key

\* the declared default of the parameter the pending _resolve_impl serves;
\* the key of the call itself has none
PendingDefault(t) ==
    IF Len(frames[t]) = 1
    THEN empty
    ELSE LET p == frames[t][Len(frames[t]) - 1]
         IN ParamOf(p.reg.builder, p.reg.needs[p.i].name).dflt

\* _resolve_impl is about to run for a key without registration in the
\* scope chain and without declared default, auto-registration being off
Unregistered(t) ==
    /\ Running(t, "resolve")
    /\ ~auto_register[call[t].c]
    /\ Get(call[t].c, PendingKey(t)) = << >>
    /\ PendingDefault(t) = empty

RaisesMissing(t, key) ==
    /\ call'[t].status = "raised"
    /\ call'[t].err = "MissingDependencyError"
    /\ call'[t].errkey = key

\* C1 as stated: with auto-registration off, resolving a key that has no
\* registration in the scope chain raises MissingDependencyError, for the
\* requested key and for the key of a parameter without a declared default,
\* static argument or call-time override.
C1_MissingAlways ==
    [][\A t \in Threads :
          Unregistered(t) => RaisesMissing(t, PendingKey(t))]_vars

\* C1 amended: the same for every key that is not a list-of-T request.  A
\* list-of-T request is answered with resolve_all(T), the empty list when T
\* has no registration.
C1_Missing ==
    [][\A t \in Threads :
          (Unregistered(t) /\ ~is_generic_list(PendingKey(t)))
              => RaisesMissing(t, PendingKey(t))]_vars

\* a call has raised for the key of a parameter of a builder it had reached
C1_Witness ==
    \E t \in Threads :
        /\ call[t].op = "resolve"
        /\ call[t].status = "raised"
        /\ call[t].err = "MissingDependencyError"
        /\ call[t].errkey # call[t].key
        /\ Get(call[t].c, call[t].key) # << >>
        /\ Get(call[t].c, call[t].errkey) = << >>

(***************************************************************************)
(* Deduplication within one resolve call.                                  *)
(***************************************************************************)
NeedsOf(r) == {r.needs[j].key : j \in DOMAIN r.needs}

\* the keys the builders registered for the keys of S need
Successors(c, S) ==
    UNION {UNION {NeedsOf(Get(c, key)[i]) : i \in DOMAIN Get(c, key)} :
              key \in S}

RECURSIVE ReachableFrom(_, _)
ReachableFrom(c, S) ==
    LET T == S \cup Successors(c, S)
    IN IF T = S THEN S ELSE ReachableFrom(c, T)

\* key is reached from the needs of its own builders, directly or through
\* the needs of other builders
OnCycle(c, key) == key \in ReachableFrom(c, Successors(c, {key}))

NeedsItself(c, key) == key \in Successors(c, {key})

NoListNeeds(c) ==
    \A key \in Classes : \A k \in Successors(c, {key}) : ~is_generic_list(k)

\* the instances built so far in t's call
BornInCall(t) ==
    {n \in (call[t].first + 1)..Len(objs) : objs[n].builder # "list"}

\* those that had a need for key resolved
Dependents(t, key) ==
    {n \in BornInCall(t) :
        \E name \in DOMAIN objs[n].resolved :
            ParamOf(objs[n].builder, name).key = key}

\* the values the dependents received for key
Received(t, key) ==
    UNION {{objs[n].resolved[name] :
               name \in {x \in DOMAIN objs[n].resolved :
                            ParamOf(objs[n].builder, x).key = key}} :
           n \in Dependents(t, key)}

\* the instances registration r has built in t's call
BuildsOf(t, r) == {n \in BornInCall(t) : objs[n].reg = r.id}

\* a resolve call without list-typed dependencies on a container with
\* auto-registration off, for which key is registered
DedupCase(t, key) ==
    /\ call[t].op = "resolve"
    /\ call[t].status # "idle"
    /\ ~auto_register[call[t].c]
    /\ ~is_generic_list(call[t].key)
    /\ NoListNeeds(call[t].c)
    /\ Get(call[t].c, key) # << >>

Shared(t, key) ==
    /\ Cardinality(Received(t, key)) <= 1
    /\ \A i \in DOMAIN Get(call[t].c, key) :
          Cardinality(BuildsOf(t, Get(call[t].c, key)[i])) <= 1

\* C6 as stated: within one resolve call every dependent that needs a key D
\* whose builders do not themselves need D receives the identical instance,
\* and D is built at most once.
C6_DedupAlways ==
    \A t \in Threads : \A key \in Keys :
        (DedupCase(t, key) /\ ~NeedsItself(call[t].c, key)) => Shared(t, key)

\* C6 amended: the same for a key D that is not reached from the needs of
\* its own builders, directly or through the needs of other builders.
C6_Dedup ==
    \A t \in Threads : \A key \in Keys :
        (DedupCase(t, key) /\ ~OnCycle(call[t].c, key)) => Shared(t, key)

\* a call has returned in which two dependents received the one instance
\* of a transient key
C6_Witness ==
    \E t \in Threads : \E key \in Keys :
        /\ Done(t, "resolve")
        /\ DedupCase(t, key)
        /\ ~OnCycle(call[t].c, key)
        /\ AllTransient(Get(call[t].c, key))
        /\ Cardinality(Dependents(t, key)) >= 2
        /\ Cardinality(Received(t, key)) = 1
        /\ Cardinality(BuildsOf(t, Last(Get(call[t].c, key)))) = 1

(***************************************************************************)
(* Argument precedence and declared defaults.                              *)
(***************************************************************************)
\* the argument the precedence picks for parameter name of instance o
Chosen(o, name) ==
    IF name \in DOMAIN o.kw THEN o.kw[name]
    ELSE IF name \in DOMAIN o.static THEN o.static[name]
    ELSE IF name \in DOMAIN o.resolved THEN o.resolved[name]
    ELSE ParamOf(o.builder, name).dflt

\* C8: whenever a builder is invoked, each parameter is passed the call-time
\* override of its name, else the registration's static argument, else the
\* instance resolved for its key, else its declared default.
C8_Precedence ==
    \A n \in DOMAIN objs : objs[n].builder # "list" =>
        \A name \in ParamNames(objs[n].builder) :
            objs[n].args[name] = Chosen(objs[n], name)

\* a builder has been invoked with a call-time override beating a static
\* argument, a static argument beating a registered key and a resolved
\* instance beating a declared default
C8_Witness ==
    \E n \in DOMAIN objs :
        LET o == objs[n]
        IN /\ o.builder \in {"Client", "Doer"}
           /\ \E x \in DOMAIN o.kw \cap DOMAIN o.static :
                 o.args[x] = o.kw[x] /\ o.kw[x] # o.static[x]
           /\ \E y \in DOMAIN o.resolved :
                 /\ ParamOf(o.builder, y).dflt # empty
                 /\ o.args[y] = o.resolved[y]
                 /\ o.resolved[y] # ParamOf(o.builder, y).dflt

\* _resolve_impl is about to run for a parameter that has a declared
\* default and whose key has no registration
Defaulted(t) ==
    /\ Running(t, "resolve")
    /\ Len(frames[t]) > 1
    /\ ~auto_register[call[t].c]
    /\ Get(call[t].c, PendingKey(t)) = << >>
    /\ PendingDefault(t) # empty

\* the parameter the pending _resolve_impl serves
PendingName(t) ==
    LET p == frames[t][Len(frames[t]) - 1] IN p.reg.needs[p.i].name

GetsDefault(t, name, dflt) ==
    /\ call'[t].status = "running"
    /\ Last(frames'[t]).kind = "build"
    /\ name \in DOMAIN Last(frames'[t]).resolved
    /\ Last(frames'[t]).resolved[name] = dflt

\* C9: a parameter that has a declared default and whose key has no
\* registration, static argument or call-time override is passed its
\* declared default, whatever the default, None included.
C9_DefaultPassed ==
    [][\A t \in Threads :
          Defaulted(t) => GetsDefault(t, PendingName(t), PendingDefault(t))]_vars

(***************************************************************************)
(* Singleton identity across calls.                                        *)
(***************************************************************************)
AllSingleton(regs) == \A i \in DOMAIN regs : regs[i].scope = singleton

\* an instance of service was built during the call numbered n
BuiltDuring(n, service) ==
    \E m \in DOMAIN objs :
        /\ objs[m].builder # "list"
        /\ objs[m].service = service
        /\ objs[m].born = n

\* C4: for a key whose registrations are singleton-scoped, any two resolve
\* calls on the same container return the identical instance, and no
\* builder of the key is invoked during the later of the two.
C4_SingletonIdentity ==
    \A i, j \in DOMAIN returned :
        (/\ i < j
         /\ returned[i].op = "resolve" /\ returned[j].op = "resolve"
         /\ returned[i].c = returned[j].c
         /\ returned[i].key = returned[j].key
         /\ AllSingleton(Get(returned[i].c, returned[i].key)))
        => /\ returned[i].result = returned[j].result
           /\ ~BuiltDuring(returned[j].n, returned[j].key)

(***************************************************************************)
(* Inheritance and isolation of scopes.                                    *)
(***************************************************************************)
\* v is what registration r produces: an instance it built, or the
\* instance it was registered with
ProducedBy(v, r) ==
    IF r.builder = "lambda" THEN v = r.instance ELSE BuiltBy(v, r)

ProducedByOneOf(v, regs) == \E i \in DOMAIN regs : ProducedBy(v, regs[i])

\* the call's container is a child that has no registration of the call's
\* key, which one of its ancestors registers
InheritedOnly(t) == Inherits(t) /\ Own(call[t].c, call[t].key) = << >>

FailsFor(t, key) ==
    /\ call[t].status = "raised"
    /\ call[t].err = "MissingDependencyError"
    /\ call[t].errkey = key

\* C11: a key registered only in an ancestor resolves in the child: the
\* child's resolve does not fail for want of the key and what it returns
\* is produced by an inherited registration, whether that registration was
\* made before or after the child was created.
C11_Inherited ==
    \A t \in Threads :
        (Ended(t, "resolve") /\ InheritedOnly(t))
        => /\ ~FailsFor(t, call[t].key)
           /\ call[t].status = "returned"
                 => ProducedByOneOf(call[t].result,
                                    Get(parent[call[t].c], call[t].key))

\* a child has resolved a key that its parent registered after the child
\* was created
C11_Witness ==
    \E t \in Threads :
        /\ Done(t, "resolve")
        /\ InheritedOnly(t)
        /\ call[t].result.t = "obj"
        /\ Last(Get(parent[call[t].c], call[t].key)).id
              > Own(call[t].c, "Container")[1].id

\* the ancestors of container c, and c with them
RECURSIVE Ancestors(_)
Ancestors(c) ==
    IF parent[c] = 0 THEN {} ELSE {parent[c]} \cup Ancestors(parent[c])

ScopeChain(c) == {c} \cup Ancestors(c)

\* the registrations made for key in c or in an ancestor of c
RegisteredUpTo(c, key) == UNION {Range(Own(k, key)) : k \in ScopeChain(c)}

\* every builder registered for key in c's chain needs dep, and there is one
NeedsDep(c, key, dep) ==
    /\ RegisteredUpTo(c, key) # {}
    /\ \A r \in RegisteredUpTo(c, key) : dep \in NeedsOf(r)

\* dep is registered outside c's chain only: in a child of c, in a sibling
\* or in a container further away
RegisteredElsewhereOnly(c, dep) ==
    /\ RegisteredUpTo(c, dep) = {}
    /\ \E k \in Containers \ ScopeChain(c) : Own(k, dep) # << >>

\* the service is registered above c, its dependency dep in c alone
SuppliedHere(c, key, dep) ==
    /\ parent[c] # 0
    /\ Own(c, key) = << >>
    /\ NeedsDep(c, key, dep)
    /\ Own(c, dep) # << >>
    /\ RegisteredUpTo(parent[c], dep) = {}

\* the instance v was given, for each parameter of key dep, what one of
\* regs produces
GivenFrom(v, dep, regs) ==
    /\ v.t = "obj"
    /\ \E name \in DOMAIN objs[v.n].resolved :
          ParamOf(objs[v.n].builder, name).key = dep
    /\ \A name \in DOMAIN objs[v.n].resolved :
          ParamOf(objs[v.n].builder, name).key = dep
              => ProducedByOneOf(objs[v.n].resolved[name], regs)

\* C12: a registration made in a child is not visible to its parent or to
\* a sibling.  When a service is registered in the parent and its
\* dependency only in one child, resolve in that child returns the service
\* built with that child's dependency, and resolve in a container whose
\* chain does not hold the dependency fails with MissingDependencyError.
C12_Isolated ==
    \A t \in Threads : \A dep \in Keys :
        Ended(t, "resolve") =>
            /\ (/\ NeedsDep(call[t].c, call[t].key, dep)
                /\ RegisteredElsewhereOnly(call[t].c, dep))
               => FailsFor(t, dep)
            /\ SuppliedHere(call[t].c, call[t].key, dep)
               => /\ call[t].status = "returned"
                  /\ GivenFrom(call[t].result, dep, Own(call[t].c, dep))

\* resolve has failed in a child whose sibling registers the dependency
C12_Witness ==
    \E t \in Threads : \E dep \in Keys :
        /\ FailsFor(t, dep)
        /\ call[t].op = "resolve"
        /\ NeedsDep(call[t].c, call[t].key, dep)
        /\ RegisteredUpTo(call[t].c, dep) = {}
        /\ \E k \in Containers \ {call[t].c} :
              /\ parent[k] = parent[call[t].c]
              /\ parent[k] # 0
              /\ Own(k, dep) # << >>

(***************************************************************************)
(* Instance registrations.                                                 *)
(***************************************************************************)
IsInstance(r) == r.builder = "lambda"

\* every registration made with an instance is singleton-scoped
InstancesAreSingletons ==
    \A c \in Containers : \A key \in Keys : \A i \in DOMAIN Own(c, key) :
        IsInstance(Own(c, key)[i]) => Own(c, key)[i].scope = singleton

\* C13 as stated: register(K, instance=obj) stores a singleton-scoped
\* registration whatever scope is passed, and every later resolve(K) on
\* that container returns obj.
C13_InstanceAlways ==
    /\ InstancesAreSingletons
    /\ \A t \in Threads :
          Done(t, "resolve") =>
              \A i \in DOMAIN Own(call[t].c, call[t].key) :
                  IsInstance(Own(call[t].c, call[t].key)[i])
                      => call[t].result = Own(call[t].c, call[t].key)[i].instance

\* the container's singleton cache held, as t's call began, nothing for the
\* call's key or the value v
CachedAtMost(t, v) ==
    call[t].cached => singletons[call[t].c][call[t].key] = v

\* C13 amended: the registration is singleton-scoped whatever scope is
\* passed, and a later resolve(K) on that container returns obj as long as
\* that registration is the newest the container has made for K and the
\* container's singleton cache holds no other instance for K.
C13_Instance ==
    /\ InstancesAreSingletons
    /\ \A t \in Threads :
          (/\ Done(t, "resolve")
           /\ Own(call[t].c, call[t].key) # << >>
           /\ IsInstance(Last(Own(call[t].c, call[t].key)))
           /\ CachedAtMost(t, Last(Own(call[t].c, call[t].key)).instance))
          => call[t].result = Last(Own(call[t].c, call[t].key)).instance

\* two resolve calls have returned the instance that was registered, with
\* transient scope asked for, after another registration of the key
C13_Witness ==
    \E t \in Threads :
        /\ Done(t, "resolve")
        /\ Len(Own(call[t].c, call[t].key)) > 1
        /\ Last(Own(call[t].c, call[t].key)).instance = Ext(1)
        /\ call[t].result = Ext(1)
        /\ \E i \in DOMAIN returned :
              /\ returned[i].n < ncalls
              /\ returned[i].op = "resolve"
              /\ returned[i].result = Ext(1)

(***************************************************************************)
(* C14.  A registration that gives neither a factory nor an instance for a *)
(* service that is not a class, or gives a factory that is not callable    *)
(* and no instance, raises InvalidRegistrationError and leaves the         *)
(* registrations and the name table of every container as they were.       *)
(***************************************************************************)
NotValid(o) ==
    /\ o.instance = empty
    /\ \/ o.factory = "empty" /\ ~IsClass(o.service)
       \/ o.factory # "empty" /\ ~Callable(o.factory)

Rejected(t) ==
    /\ call[t].op = "register"
    /\ call[t].status = "raised"
    /\ call[t].err = "InvalidRegistrationError"

RefClientOption == RegOption("RefClient", "empty", empty, transient, EmptyMap)

\* the keys named Dependency
NamedDependency == {"Dependency", "'Dependency'"}

\* container c has a registration of a key named Dependency
NamedRegistered(c) == \E key \in NamedDependency : Own(c, key) # << >>

FailsForwardRef(t) ==
    /\ call[t].op = "register"
    /\ call[t].status = "raised"
    /\ call[t].err = "InvalidForwardReferenceError"

\* what resolve(RefClient) returned holds an instance of Dependency
Injected(t) ==
    (Done(t, "resolve") /\ call[t].key = "RefClient")
       => /\ call[t].result.t = "obj"
          /\ "dep" \in DOMAIN objs[call[t].result.n].resolved
          /\ ProducedByOneOf(objs[call[t].result.n].resolved["dep"],
                             Get(call[t].c, "Dependency")
                                \o Get(call[t].c, "ForwardRef('Dependency')"))

ForwardRefStep(t, c) ==
    Register(t, c, RefClientOption, MaxRefRegs)
       => IF NamedRegistered(c)
          THEN /\ call'[t].status = "returned"
               /\ Len(entries'[c]["RefClient"]) = Len(Own(c, "RefClient")) + 1
          ELSE /\ FailsForwardRef(t)'
               /\ entries' = entries
               /\ localns' = localns

C15_ForwardRef ==
    [][\A t \in Threads :
          /\ \A c \in Containers : ForwardRefStep(t, c)
          /\ Injected(t)']_vars

\* the same for containers that do not register automatically
C15_ByRegister ==
    [][\A t \in Threads :
          /\ \A c \in Containers : ~auto_register[c] => ForwardRefStep(t, c)
          /\ Injected(t)']_vars

(***************************************************************************)
(* C16.  In a container that registers automatically, or a child of one,   *)
(* resolve(T) of a class T the container sees no registration of returns   *)
(* an instance built by a transient registration of T as itself that the   *)
(* container made in its own scope during the call; every parameter of T   *)
(* whose class the container saw no registration of holds an instance      *)
(* produced the same way.                                                  *)
(***************************************************************************)
\* the call's container saw no registration of key when the call began
UnregisteredAtStart(t, key) ==
    \A i \in DOMAIN Get(call[t].c, key) :
        Get(call[t].c, key)[i].id > call[t].regs

\* v was built by a registration of T as itself, transient, that the call
\* added to its container's own scope
AutoBuilt(t, v, T) ==
    \E i \in DOMAIN Own(call[t].c, T) :
        LET r == Own(call[t].c, T)[i]
        IN /\ r.id > call[t].regs
           /\ r.scope = transient
           /\ r.builder = T
           /\ BuiltBy(v, r)

\* resolve of an unregistered class in an auto-registering container ended
AutoCase(t) ==
    /\ call[t].op = "resolve"
    /\ call[t].status \in {"returned", "raised"}
    /\ auto_register[call[t].c]
    /\ IsClass(call[t].key)
    /\ UnregisteredAtStart(t, call[t].key)

\* the parameters of the returned instance whose class was unregistered
AutoNeeds(t) ==
    {i \in DOMAIN Params(call[t].key) :
        /\ IsClass(Params(call[t].key)[i].key)
        /\ UnregisteredAtStart(t, Params(call[t].key)[i].key)}

AutoDone(t, needs) ==
    /\ call[t].status = "returned"
    /\ AutoBuilt(t, call[t].result, call[t].key)
    /\ \A i \in needs :
          LET p == Params(call[t].key)[i]
          IN /\ p.name \in DOMAIN objs[call[t].result.n].args
             /\ AutoBuilt(t, objs[call[t].result.n].args[p.name], p.key)

C16_AutoAlways ==
    \A t \in Threads : AutoCase(t) => AutoDone(t, AutoNeeds(t))

\* T can be called, and so can the classes of its parameters that have no
\* default; every parameter is annotated with a class
RECURSIVE Constructible(_)
Constructible(T) ==
    /\ T \notin Protocols
    /\ \A i \in DOMAIN Params(T) :
          /\ IsClass(Params(T)[i].key)
          /\ Params(T)[i].dflt \in {empty, NoneVal}
                => Constructible(Params(T)[i].key)

Undefaulted(t, needs) ==
    {i \in needs : Params(call[t].key)[i].dflt \in {empty, NoneVal}}

\* C16 for classes that can be constructed, and for their parameters that
\* have no default
C16_Auto ==
    \A t \in Threads :
        (AutoCase(t) /\ Constructible(call[t].key))
           => AutoDone(t, Undefaulted(t, AutoNeeds(t)))

\* Root resolved in a child with nothing registered anywhere
C16_Witness ==
    \E t \in Threads :
        /\ AutoCase(t)
        /\ call[t].key = "Root"
        /\ parent[call[t].c] # 0
        /\ AutoNeeds(t) = {1, 2}
        /\ call[t].status = "returned"

(***************************************************************************)
(* C17.  When resolve returns an instance of a class with parameters that  *)
(* are lists of Filter, each such parameter holds a list of its own, made  *)
(* for it, with exactly one element built by each registration of Filter;  *)
(* no singleton cache and no context cache ever holds a list key.          *)
(***************************************************************************)
\* the names of the list parameters of builder
ListParams(builder) ==
    {Params(builder)[i].name :
        i \in {j \in DOMAIN Params(builder) :
                  is_generic_list(Params(builder)[j].key)}}

\* v is a list with one element built by each of regs, and nothing else
OnePerRegistration(v, regs) ==
    /\ v.t = "obj"
    /\ objs[v.n].builder = "list"
    /\ Len(objs[v.n].elems) = Len(regs)
    /\ \A i \in DOMAIN regs :
          \E j \in DOMAIN objs[v.n].elems : BuiltBy(objs[v.n].elems[j], regs[i])

ListsGiven(t) ==
    LET n == call[t].result.n
        names == ListParams(objs[n].builder)
    IN /\ \A x \in names :
             /\ x \in DOMAIN objs[n].args
             /\ OnePerRegistration(objs[n].args[x],
                                   Get(call[t].c, generic_parameter(
                                          ParamOf(objs[n].builder, x).key)))
       /\ \A x, y \in names : x # y => objs[n].args[x] # objs[n].args[y]

ListsNeverCached ==
    /\ \A c \in Containers : DOMAIN singletons[c] \cap ListKeys = {}
    /\ \A t \in Threads : \A i \in DOMAIN contexts[t] :
          DOMAIN contexts[t][i].cache \cap ListKeys = {}

C17_ListParameter ==
    /\ ListsNeverCached
    /\ \A t \in Threads :
          (Done(t, "resolve") /\ call[t].result.t = "obj") => ListsGiven(t)

\* the same when no implementation of Filter needs a Filter
C17_ListParameterPlain ==
    /\ ListsNeverCached
    /\ \A t \in Threads :
          (/\ Done(t, "resolve")
           /\ call[t].result.t = "obj"
           /\ \A i \in DOMAIN Get(call[t].c, "Filter") :
                 Get(call[t].c, "Filter")[i].needs = << >>)
             => ListsGiven(t)

(***************************************************************************)
(* C18.  A parameter that a static argument of the registration or an      *)
(* argument of the call covers is not resolved: when every other need of   *)
(* the newest registration of the requested key is registered or has a     *)
(* default, resolve returns the instance that registration builds, whether *)
(* or not the covered parameters' keys are registered, and nothing was     *)
(* resolved for a covered parameter.                                       *)
(***************************************************************************)
\* the newest registration the call's container sees for the call's key
Newest(t) == Last(Visible(t))

\* the parameter names covered by a static or a call-time argument
Covered(t) == DOMAIN Newest(t).args \cup DOMAIN call[t].kwargs

\* the needs of the newest registration that no argument covers
Uncovered(t) ==
    {i \in DOMAIN Newest(t).needs : Newest(t).needs[i].name \notin Covered(t)}

\* the needs that are covered although their key has no registration
CoveredUnregistered(t) ==
    {i \in DOMAIN Newest(t).needs :
        /\ Newest(t).needs[i].name \in Covered(t)
        /\ Get(call[t].c, Newest(t).needs[i].key) = << >>}

\* every need that is not covered is registered or has a default
Suppliable(t) ==
    \A i \in Uncovered(t) :
        \/ Get(call[t].c, Newest(t).needs[i].key) # << >>
        \/ DictGet(_match_defaults(getfullargspec(Newest(t).builder)),
                   Newest(t).needs[i].name) # NoneVal

CoveredCase(t) ==
    /\ call[t].op = "resolve"
    /\ call[t].status \in {"returned", "raised"}
    /\ Visible(t) # << >>
    /\ Suppliable(t)

C18_Covered ==
    \A t \in Threads :
        CoveredCase(t)
           => /\ call[t].status = "returned"
              /\ BuiltBy(call[t].result, Newest(t))
              /\ DOMAIN objs[call[t].result.n].resolved \cap Covered(t) = {}

C18_Witness ==
    \E t \in Threads :
        /\ CoveredCase(t)
        /\ CoveredUnregistered(t) # {}
        /\ call[t].status = "returned"
        /\ DOMAIN Newest(t).args # {}
        /\ DOMAIN call[t].kwargs # {}

(***************************************************************************)
(* C19.  A call-time argument whose name is not a parameter of a builder   *)
(* is not passed to it and raises nothing: resolve with such an argument   *)
(* returns what the newest registration builds whenever its uncovered      *)
(* needs can be supplied, and fails for a missing dependency otherwise; no *)
(* builder run in the call is passed a name it does not declare, and the   *)
(* arguments that do name a parameter are passed as given.                 *)
(***************************************************************************)
\* the call-time arguments that name no parameter of the requested builder
Irrelevant(t) == DOMAIN call[t].kwargs \ ParamNames(Newest(t).builder)

IrrelevantCase(t) ==
    /\ call[t].op = "resolve"
    /\ call[t].status \in {"returned", "raised"}
    /\ Visible(t) # << >>
    /\ Irrelevant(t) # {}

OnlyDeclaredPassed(t) ==
    \A n \in (call[t].first + 1)..Len(objs) :
        DOMAIN objs[n].passed \subseteq ParamNames(objs[n].builder)

C19_Ignored ==
    \A t \in Threads :
        IrrelevantCase(t)
           => IF Suppliable(t)
              THEN /\ call[t].status = "returned"
                   /\ BuiltBy(call[t].result, Newest(t))
                   /\ OnlyDeclaredPassed(t)
                   /\ \A name \in DOMAIN call[t].kwargs \ Irrelevant(t) :
                         objs[call[t].result.n].passed[name]
                            = call[t].kwargs[name]
              ELSE /\ call[t].status = "raised"
                   /\ call[t].err = "MissingDependencyError"

C19_Witness ==
    \E t \in Threads :
        /\ IrrelevantCase(t)
        /\ call[t].status = "returned"
        /\ Len(objs) > call[t].first + 1

(***************************************************************************)
(* C20.  When resolve(Author, b=value) returns, the Scribe built in the    *)
(* call for Author's parameter s has its own parameter b as a call without *)
(* the argument gives it: the instance registered for int when there is    *)
(* one, the declared default otherwise.                                    *)
(***************************************************************************)
\* the value a builder's parameter gets when no argument covers it
WithoutOverride(c, builder, name) ==
    IF Get(c, ParamOf(builder, name).key) # << >>
    THEN Last(Get(c, ParamOf(builder, name).key)).instance
    ELSE ParamOf(builder, name).dflt

\* the instances built in t's call for a need of the returned instance
BuiltDependencies(t) ==
    {n \in (call[t].first + 1)..Len(objs) :
        /\ Obj(n) # call[t].result
        /\ Obj(n) \in Range(objs[call[t].result.n].resolved)}

OverrideCase(t) ==
    /\ Done(t, "resolve")
    /\ call[t].key = "Author"
    /\ DOMAIN call[t].kwargs # {}

C20_OwnBuilderOnly ==
    \A t \in Threads :
        OverrideCase(t)
           => \A n \in BuiltDependencies(t) :
                 \A name \in DOMAIN call[t].kwargs \cap ParamNames(objs[n].builder) :
                    objs[n].args[name]
                       = WithoutOverride(call[t].c, objs[n].builder, name)

(***************************************************************************)
(* C21.  Once a singleton-scoped registration of key K has built an        *)
(* instance in a container, every resolve(K) that begins later on that     *)
(* container returns that instance and builds nothing, whatever has been   *)
(* registered for K in between.                                            *)
(***************************************************************************)
\* object n was built by a singleton-scoped registration that container c
\* sees under key
SingletonBuilt(c, key, n) ==
    /\ objs[n].service = key
    /\ \E i \in DOMAIN Get(c, key) :
          /\ Get(c, key)[i].id = objs[n].reg
          /\ Get(c, key)[i].scope = singleton

\* nothing was built since t's call began
NothingBuilt(t) == Len(objs) = call[t].first

C21_Permanent ==
    \A t \in Threads :
        Done(t, "resolve")
           => \A n \in 1..call[t].first :
                 SingletonBuilt(call[t].c, call[t].key, n)
                    => call[t].result = Obj(n) /\ NothingBuilt(t)

\* a resolve that begins with an instance cached for its key returns the
\* cached instance and builds nothing
C21_FromCache ==
    \A t \in Threads :
        (Ended(t, "resolve") /\ call[t].cached)
           => /\ call[t].status = "returned"
              /\ call[t].result = singletons[call[t].c][call[t].key]
              /\ NothingBuilt(t)

(***************************************************************************)
(* C22.  A container made by child() starts with an empty singleton cache; *)
(* a step of a call on one container leaves the cache of every other       *)
(* container as it was; every instance a singleton-scoped registration has *)
(* built is held by the cache of exactly one container, so a container     *)
(* that resolves the parent's singleton builds its own.                    *)
(***************************************************************************)
\* the step creates a container, whose cache is empty
StartsEmpty ==
    Len(singletons') > Len(singletons)
       => /\ singletons'[Len(singletons')] = EmptyMap
          /\ \A c \in Containers : singletons'[c] = singletons[c]

\* a step of a call changes no cache but its own container's
OthersUntouched(t) ==
    call[t].status = "running"
       => \A c \in Containers \ {call[t].c} : singletons'[c] = singletons[c]

\* the containers whose cache holds v
HeldBy(v) ==
    {c \in Containers :
        \E k \in DOMAIN singletons[c] : singletons[c][k] = v}

\* the instances built by singleton-scoped registrations
SingletonInstances ==
    {n \in DOMAIN objs :
        \E c \in Containers : SingletonBuilt(c, objs[n].service, n)}

OneCacheEach == \A n \in SingletonInstances : Cardinality(HeldBy(Obj(n))) = 1

C22_Independent ==
    [][/\ StartsEmpty
       /\ \A t \in Threads : OthersUntouched(t)
       /\ OneCacheEach']_vars

\* parent and child each hold an instance of their own, built by the same
\* registration
C22_Witness ==
    \E n, m \in SingletonInstances :
        /\ n # m
        /\ objs[n].reg = objs[m].reg
        /\ \E c \in HeldBy(Obj(n)), d \in HeldBy(Obj(m)) : parent[d] = c

(***************************************************************************)
(* C23.  instantiate(T) returns a T built in the call by a registration    *)
(* that is in no scope; no step of the call changes the registrations or   *)
(* the singleton cache.                                                    *)
(***************************************************************************)
Instantiating(t) == call[t].op = "instantiate" /\ call[t].status = "running"

\* what instantiate returned is a new instance of the class, built by the
\* registration made for the call
NewInstance(t) ==
    Done(t, "instantiate")
       => /\ Fresh(t, call[t].result)
          /\ objs[call[t].result.n].builder = call[t].key
          /\ objs[call[t].result.n].reg = 0

StoresBuilt(t, k) ==
    /\ k # call[t].key
    /\ Len(objs') = Len(objs) + 1
    /\ singletons'[call[t].c][k] = Obj(Len(objs'))
    /\ objs'[Len(objs')].service = k
    /\ \E i \in DOMAIN Get(call[t].c, k) :
          /\ Get(call[t].c, k)[i].id = objs'[Len(objs')].reg
          /\ Get(call[t].c, k)[i].scope = singleton

\* a step of instantiate changes the cache only by storing a singleton
\* dependency it has just built, and never the entry of the class itself
CacheGrowsByBuilt(t) ==
    /\ \A c \in Containers \ {call[t].c} : singletons'[c] = singletons[c]
    /\ \A k \in DOMAIN singletons'[call[t].c] :
          \/ /\ k \in DOMAIN singletons[call[t].c]
             /\ singletons'[call[t].c][k] = singletons[call[t].c][k]
          \/ StoresBuilt(t, k)
    /\ DOMAIN singletons[call[t].c] \subseteq DOMAIN singletons'[call[t].c]

Owner(r, key) == CHOOSE c \in Containers : r \in Range(Own(c, key))

\* the number of scopes above c
RECURSIVE Depth(_)
Depth(c) == IF parent[c] = 0 THEN 0 ELSE 1 + Depth(parent[c])

InChainOrder(c, key) ==
    LET got == Get(c, key)
    IN /\ Range(got) = RegisteredUpTo(c, key)
       /\ Len(got) = Cardinality(RegisteredUpTo(c, key))
       /\ \A i, j \in DOMAIN got :
             i < j => \/ Depth(Owner(got[i], key)) < Depth(Owner(got[j], key))
                      \/ /\ Owner(got[i], key) = Owner(got[j], key)
                         /\ got[i].id < got[j].id

C24_ChainOrder ==
    \A c \in Containers : \A key \in {"Dep", "SubSystemA", "Root"} :
        InChainOrder(c, key)

\* a scope, its parent and its grandparent each hold an entry for a key,
\* and a key no scope has an entry for
C24_Witness ==
    \E c \in Containers :
        /\ parent[c] # 0
        /\ parent[parent[c]] # 0
        /\ Own(c, "Dep") # << >>
        /\ Own(parent[c], "Dep") # << >>
        /\ Own(parent[parent[c]], "Dep") # << >>
        /\ Get(c, "Root") = << >>

(***************************************************************************)
(* C25.  In every container, the registrations stored under the literal    *)
(* string 'Dependency' and those stored under its ForwardRef correspond    *)
(* one to one, in order, each pair with the same builder, the same static  *)
(* arguments, the same instance and the same scope.                        *)
(***************************************************************************)
Equivalent(r, q) ==
    /\ r.builder = q.builder
    /\ r.args = q.args
    /\ r.instance = q.instance
    /\ r.scope = q.scope

C25_PlaceholderEquivalent ==
    \A c \in Containers : \A s \in StrKeys :
        /\ Len(Own(c, ForwardRef(s))) = Len(Own(c, s))
        /\ \A i \in DOMAIN Own(c, s) :
              Equivalent(Own(c, s)[i], Own(c, ForwardRef(s))[i])

\* the same without the scope
C25_PlaceholderSameBuilder ==
    \A c \in Containers : \A s \in StrKeys :
        /\ Len(Own(c, ForwardRef(s))) = Len(Own(c, s))
        /\ \A i \in DOMAIN Own(c, s) :
              /\ Own(c, s)[i].builder = Own(c, ForwardRef(s))[i].builder
              /\ Own(c, s)[i].args = Own(c, ForwardRef(s))[i].args
              /\ Own(c, s)[i].instance = Own(c, ForwardRef(s))[i].instance

(***************************************************************************)
(* C26.  In a resolve call on an auto-registering container no key gets    *)
(* more than one registration during the call: of the registrations of a   *)
(* key in the container's own scope, at most one was made since the call   *)
(* began.                                                                  *)
(***************************************************************************)
RegisteredInCall(t, key) ==
    {i \in DOMAIN Own(call[t].c, key) :
        Own(call[t].c, key)[i].id > call[t].regs}

C26_OncePerKey ==
    \A t \in Threads :
        (call[t].op = "resolve" /\ auto_register[call[t].c])
            => \A key \in Keys : Cardinality(RegisteredInCall(t, key)) <= 1

\* the retry finds the new registration: a resolve on an auto-registering
\* container never ends with MissingDependencyError for a class
C26_RetryFinds ==
    \A t \in Threads :
        (call[t].op = "resolve" /\ auto_register[call[t].c]
            /\ call[t].status = "raised"
            /\ call[t].err = "MissingDependencyError")
            => call[t].errkey \notin Classes

(***************************************************************************)
(* C27.  With two threads resolving on one container: whenever a thread    *)
(* comes back from the builder of a singleton-scoped registration, its     *)
(* write replaces whatever the singleton cache holds for the key, so the   *)
(* cache holds the instance written last; and a resolve that finds the key *)
(* in the cache returns the instance the cache holds at that moment.       *)
(***************************************************************************)
Steps(t) == frames'[t] # frames[t]

WritesLast(t) ==
    (Running(t, "built") /\ Steps(t)
        /\ Last(frames[t]).reg.scope = singleton)
        => /\ Last(frames[t]).reg.service \in DOMAIN singletons'[call[t].c]
           /\ singletons'[call[t].c][Last(frames[t]).reg.service]
                 = Last(frames[t]).result

ReturnsCached(t) ==
    (Running(t, "resolve") /\ Steps(t) /\ Len(frames[t]) = 1
        /\ call[t].key \in DOMAIN singletons[call[t].c])
        => /\ call'[t].status = "returned"
           /\ call'[t].result = singletons[call[t].c][call[t].key]

C27_LastWriteWins ==
    [][\A t \in AllThreads : WritesLast(t) /\ ReturnsCached(t)]_vars

\* both threads have passed the cache check and come back from the builder
\* of the same singleton registration, each with an instance of its own
BothBuilt ==
    /\ \A t \in AllThreads :
          /\ Running(t, "built")
          /\ Last(frames[t]).reg.scope = singleton
          /\ Last(frames[t]).reg.service = "Dep"
    /\ Last(frames[1]).reg.id = Last(frames[2]).reg.id
    /\ Last(frames[1]).result # Last(frames[2]).result

\* the two racing resolves have returned different instances, the cache holds
\* the one built first and written last, and a third resolve has returned it
C27_Witness ==
    /\ Len(returned) = 3
    /\ \A i \in 1..3 : returned[i].key = "Dep"
    /\ returned[1].result = Obj(2)
    /\ returned[2].result = Obj(1)
    /\ Len(objs) = 2
    /\ "Dep" \in DOMAIN singletons[1]
    /\ objs[1].reg = objs[2].reg
    /\ objs[1].service = "Dep"
    /\ singletons[1]["Dep"] = Obj(1)
    /\ returned[3].result = Obj(1)

(***************************************************************************)
(* C28.  With two resolve calls interleaved on one container and nothing   *)
(* registered meanwhile: a step of one thread changes neither the registry *)
(* nor the candidate lists of the other thread's contexts; and on a chain  *)
(* of transient registrations of K each call returns what it returns when  *)
(* it runs alone, the newest registration's instance linked down to the    *)
(* oldest one's, and the two calls share no instance.                      *)
(***************************************************************************)
\* the instances v is made of: v itself and those its arguments hold
RECURSIVE Parts(_)
Parts(v) ==
    IF v.t # "obj"
    THEN {}
    ELSE {v.n} \cup UNION {Parts(objs[v.n].args[name]) :
                                name \in DOMAIN objs[v.n].args}

AsIfAlone(t) ==
    (Ended(t, "resolve") /\ IsChain(Visible(t), call[t].key)
        /\ AllTransient(Visible(t))) =>
        /\ call[t].status = "returned"
        /\ LinkedOnce(Visible(t), call[t].key, call[t].result)
        /\ Cardinality(Parts(call[t].result)) = Len(Visible(t))

C28_AsIfAlone ==
    /\ \A t \in AllThreads : AsIfAlone(t)
    /\ \A t, u \in AllThreads :
          (t # u /\ Done(t, "resolve") /\ Done(u, "resolve"))
              => Parts(call[t].result) \cap Parts(call[u].result) = {}

\* a step of one thread leaves the registry and the other thread's contexts
\* as they are
C28_PrivateCopies ==
    [][\A t, u \in AllThreads :
          (t # u /\ Steps(t) /\ call[t].status = "running")
              => /\ contexts'[u] = contexts[u]
                 /\ entries' = entries]_vars

\* both calls were running at once, each popped a chain of three, and both
\* have returned
C28_Witness ==
    /\ \A t \in AllThreads :
          /\ Done(t, "resolve")
          /\ IsChain(Visible(t), call[t].key)
          /\ Len(Visible(t)) = 3
    /\ call[1].first = 0
    /\ call[2].first = 0
    /\ call[1].result = Obj(5)
    /\ call[2].result = Obj(6)

(***************************************************************************)
(* C29.  The singleton cache is write-once per key: no step of register,   *)
(* resolve, resolve_all or child changes the instance a container's cache  *)
(* holds for a key.                                                        *)
(***************************************************************************)
C29_WriteOnce ==
    [][\A c \in Containers : \A key \in DOMAIN singletons[c] :
          /\ key \in DOMAIN singletons'[c]
          /\ singletons'[c][key] = singletons[c][key]]_vars

\* what does hold: an entry is never removed
C29_NeverRemoved ==
    [][\A c \in Containers : DOMAIN singletons[c] \subseteq DOMAIN singletons'[c]]_vars

(***************************************************************************)
(* C30.  When the newest registration a container sees for K is transient  *)
(* and the container's singleton cache holds no instance for K as the call *)
(* begins, a resolve(K) that returns gives an instance built during the    *)
(* call by that newest registration, whatever the scope of the older ones. *)
(***************************************************************************)
NewestTransient(t) ==
    /\ Done(t, "resolve")
    /\ Visible(t) # << >>
    /\ Last(Visible(t)).scope = transient

FreshFromNewest(t) ==
    /\ Fresh(t, call[t].result)
    /\ BuiltBy(call[t].result, Last(Visible(t)))

\* C30 as stated: whatever the singleton cache holds
C30_FreshAlways ==
    \A t \in Threads : NewestTransient(t) => FreshFromNewest(t)

C30_Fresh ==
    \A t \in Threads :
        (NewestTransient(t) /\ ~call[t].cached) => FreshFromNewest(t)

\* the older registration is singleton-scoped and the call has built it as
\* the successor of the newest one's instance
C30_Witness ==
    \E t \in Threads :
        /\ NewestTransient(t)
        /\ ~call[t].cached
        /\ Len(Visible(t)) = 2
        /\ Visible(t)[1].scope = singleton
        /\ call[t].key \in DOMAIN singletons[call[t].c]
        /\ BuiltBy(singletons[call[t].c][call[t].key], Visible(t)[1])
        /\ FreshFromNewest(t)
        /\ Fresh(t, singletons[call[t].c][call[t].key])

(***************************************************************************)
(* C31.  Without auto-registration and list-typed parameters every resolve *)
(* call ends, by returning or by raising: the call stack never holds two   *)
(* builds of one registration in one context (a registration popped from a *)
(* candidate list is not there a second time), and a running call leads to *)
(* an ended one.                                                           *)
(***************************************************************************)
BuildsOnStack(t) == {i \in DOMAIN frames[t] : frames[t][i].kind = "build"}

PoppedOnce(t) ==
    \A i, j \in BuildsOnStack(t) :
        (i # j /\ frames[t][i].ctx = frames[t][j].ctx)
            => frames[t][i].reg.id # frames[t][j].reg.id

C31_Terminates ==
    /\ [](\A t \in Threads : PoppedOnce(t))
    /\ \A t \in Threads :
          (call[t].status = "running")
              ~> (call[t].status \in {"returned", "raised"})

\* a call on keys that need each other (Dep built by Wrapper, which needs a
\* SubSystemA, which needs a Dep) has ended in MissingDependencyError
C31_Witness ==
    \E t \in Threads :
        /\ Ended(t, "resolve")
        /\ call[t].key = "SubSystemA"
        /\ OnCycle(call[t].c, call[t].key)
        /\ ~NeedsItself(call[t].c, "Dep")
        /\ \A i \in DOMAIN Get(call[t].c, "Dep") :
              Get(call[t].c, "Dep")[i].builder = "Wrapper"
        /\ call[t].status = "raised"
        /\ call[t].err = "MissingDependencyError"

\* the same for a chain whose oldest registration needs its own key
C31_WitnessOwnKey ==
    \E t \in Threads :
        /\ Ended(t, "resolve")
        /\ call[t].key = "Filter"
        /\ Visible(t) # << >>
        /\ Visible(t)[1].builder = "Is_A"
        /\ call[t].status = "raised"
        /\ call[t].err = "MissingDependencyError"

(***************************************************************************)
(* C32.  On a container that does not auto-register, no step of resolve,   *)
(* resolve_all or instantiate changes the registration store, whether the  *)
(* call returns or raises; and every resolve(K) on a chain of transient    *)
(* registrations, the first and the next alike, builds the full chain.     *)
(***************************************************************************)
Lookups == {"resolve", "resolve_all", "instantiate"}

\* thread t begins or continues a call of one of the three operations
Looks(t) ==
    /\ call'[t] # call[t] \/ frames'[t] # frames[t]
    /\ call'[t].op \in Lookups
    /\ ~auto_register[call'[t].c]

StoreKept ==
    \A t \in Threads :
        Looks(t) => /\ entries' = entries
                    /\ localns' = localns
                    /\ regCount' = regCount

FullChain(t) ==
    /\ call[t].status = "returned"
    /\ Linked(t, Visible(t), call[t].key, call[t].result)
    /\ \A i \in DOMAIN Visible(t) : BuiltInCall(t, Visible(t)[i]) = 1

ChainAgain ==
    \A t \in Threads :
        (Ended(t, "resolve") /\ IsChain(Visible(t), call[t].key)
            /\ AllTransient(Visible(t))) => FullChain(t)

\* C32 as stated: on every chain, whatever the scopes
ChainAgainAlways ==
    \A t \in Threads :
        (Ended(t, "resolve") /\ IsChain(Visible(t), call[t].key))
            => FullChain(t)

C32_StoreUnchangedAlways == [][StoreKept /\ ChainAgainAlways']_vars

C32_StoreUnchanged == [][StoreKept /\ ChainAgain']_vars

\* the second of two resolves on the same chain of three, nothing registered
\* in between, has built the full chain again
C32_Witness ==
    \E t \in Threads :
        /\ Done(t, "resolve")
        /\ ncalls = 2
        /\ Len(returned) = 2
        /\ returned[1].op = "resolve"
        /\ returned[1].c = call[t].c
        /\ IsChain(Visible(t), call[t].key)
        /\ AllTransient(Visible(t))
        /\ Len(Visible(t)) = 3
        /\ call[t].first = 3
        /\ FullChain(t)

\* a call that popped a candidate and then raised has left the store as it
\* was
C32_WitnessRaised ==
    \E t \in Threads :
        /\ call[t].op \in Lookups
        /\ call[t].status = "raised"
        /\ call[t].err = "MissingDependencyError"
        /\ Get(call[t].c, "Filter") # << >>
        /\ call[t].regs = regCount

(***************************************************************************)
(* C33.  The registration store is append-only.  In every step the list of *)
(* every key in every scope keeps what it held, in the same order, at its  *)
(* front; a register that returns appends one registration to the calling  *)
(* container's own list of the service key, one more to its list of the    *)
(* placeholder key when the service is a string, and leaves every other    *)
(* list as it was.                                                         *)
(***************************************************************************)
IsPrefix(s, r) == Len(s) <= Len(r) /\ SubSeq(r, 1, Len(s)) = s

AppendOnly ==
    \A c \in Containers : \A key \in Keys :
        IsPrefix(entries[c][key], entries'[c][key])

\* thread t's register call returns in this step
Registers(t) ==
    /\ nregs' = nregs + 1
    /\ call'[t].op = "register"
    /\ call'[t].status = "returned"

\* the keys a register of service writes under
Written(service) ==
    IF IsStr(service) THEN {service, ForwardRef(service)} ELSE {service}

AppendsOne(t) ==
    LET c == call'[t].c
        service == call'[t].key
    IN /\ \A key \in Written(service) :
             /\ Len(entries'[c][key]) = Len(entries[c][key]) + 1
             /\ Last(entries'[c][key]).service = key
       /\ \A d \in Containers : \A key \in Keys :
             (d # c \/ key \notin Written(service))
                 => entries'[d][key] = entries[d][key]

C33_AppendOnly ==
    [][/\ AppendOnly
       /\ \A t \in Threads : Registers(t) => AppendsOne(t)]_vars

\* a child has registered under a string key below two registrations of its
\* own and the parent holds registrations of the same keys
C33_Witness ==
    \E c \in Containers : \E s \in StrKeys :
        /\ parent[c] # 0
        /\ Len(Own(c, s)) >= 2
        /\ Len(Own(c, ForwardRef(s))) >= 2
        /\ Own(parent[c], s) # << >>
        /\ Own(c, s)[1].id < Own(c, s)[2].id

(***************************************************************************)
(* C34.  When resolve(Panel) returns, every SubSystemA in the list the     *)
(* Panel received holds the same Dep instance as the Panel itself.         *)
(***************************************************************************)
\* the elements of the list that instance v received as parameter name
ListGiven(v, name) == Range(objs[objs[v.n].args[name].n].elems)

PanelBuilt(t) ==
    /\ Done(t, "resolve")
    /\ call[t].key = "Panel"
    /\ Fresh(t, call[t].result)

SameDep(t) ==
    \A e \in ListGiven(call[t].result, "subs") :
        objs[e.n].args["d"] = objs[call[t].result.n].args["d"]

C34_SharedAcrossList == \A t \in Threads : PanelBuilt(t) => SameDep(t)

\* what does hold: they share the Dep when the newest registration of Dep
\* is singleton-scoped
C34_SharedSingleton ==
    \A t \in Threads :
        (PanelBuilt(t) /\ Last(Get(call[t].c, "Dep")).scope = singleton)
            => SameDep(t)

(***************************************************************************)
(* C35.  On an auto-registering container, when Dep has no registration as *)
(* resolve(Root) begins, the Root that is returned and the SubSystemA it   *)
(* holds have received the same Dep instance.                              *)
(***************************************************************************)
RootBuilt(t) ==
    /\ Done(t, "resolve")
    /\ call[t].key = "Root"
    /\ auto_register[call[t].c]
    /\ Fresh(t, call[t].result)

C35_SharedWhenAuto ==
    \A t \in Threads :
        (RootBuilt(t) /\ UnregisteredAtStart(t, "Dep"))
            => objs[objs[call[t].result.n].args["a"].n].args["d"]
                   = objs[call[t].result.n].args["d"]

(***************************************************************************)
(* C36.  In a resolve on a child container whose singleton cache holds     *)
(* nothing for K as the call begins: an own registration of the child      *)
(* whose builder needs K, when the child's scope holds no other            *)
(* registration of K and the parent chain registers K, receives as its     *)
(* K-parameter the instance built by the newest inherited registration of  *)
(* K.                                                                      *)
(***************************************************************************)
Inherited(c, key) == IF parent[c] = 0 THEN << >> ELSE Get(parent[c], key)

\* r is a registration of container c's own scope that needs key, c holds
\* no other registration of key and inherits some
OwnAboveInherited(c, r, key) ==
    /\ \E i \in DOMAIN Own(c, r.service) : Own(c, r.service)[i] = r
    /\ ParamsFor(r, key) # {}
    /\ \A i \in DOMAIN Own(c, key) : Own(c, key)[i] = r
    /\ Inherited(c, key) # << >>

\* the registrations a call on c can build: those of its lookups
OwnNeedy(c, key) ==
    {r \in UNION {Range(Own(c, k)) : k \in Classes} :
        OwnAboveInherited(c, r, key)}

\* every instance r has built in t's call holds for key what the newest
\* inherited registration of key has built
FromNewestInherited(t, r, key) ==
    \A n \in (call[t].first + 1)..Len(objs) :
        objs[n].reg = r.id
            => \A name \in ParamsFor(r, key) :
                  BuiltBy(objs[n].args[name], Last(Inherited(call[t].c, key)))

InheritedCase(t) ==
    /\ call[t].op = "resolve"
    /\ call[t].status \in {"running", "returned"}

\* the singleton cache of the call's container held nothing for key as the
\* call began: it holds nothing now or what the call has built
EmptyAtStart(t, key) ==
    key \in DOMAIN singletons[call[t].c]
        => Fresh(t, singletons[call[t].c][key])

\* C36 as stated: whatever the child's singleton cache holds
C36_InheritedBelowAlways ==
    \A t \in Threads : \A key \in {"Dep", "Filter"} :
        InheritedCase(t)
            => \A r \in OwnNeedy(call[t].c, key) :
                  FromNewestInherited(t, r, key)

C36_InheritedBelow ==
    \A t \in Threads : \A key \in {"Dep", "Filter"} :
        (InheritedCase(t) /\ EmptyAtStart(t, key))
            => \A r \in OwnNeedy(call[t].c, key) :
                  FromNewestInherited(t, r, key)

BuiltWith(t, r, key) ==
    /\ call[t].status = "returned"
    /\ EmptyAtStart(t, key)
    /\ Len(Inherited(call[t].c, key)) = 2
    /\ BuiltBy(call[t].result, r)
    /\ Fresh(t, call[t].result)
    /\ FromNewestInherited(t, r, key)

\* the child's Is_A has received what the newer of two inherited
\* registrations of Filter built
C36_Witness ==
    \E t \in Threads :
        /\ InheritedCase(t)
        /\ \E r \in OwnNeedy(call[t].c, "Filter") : BuiltWith(t, r, "Filter")

\* the child's SubSystemA has received the singleton Dep the call has built
\* from the newer of two inherited registrations
C36_WitnessSingleton ==
    \E t \in Threads :
        /\ InheritedCase(t)
        /\ "Dep" \in DOMAIN singletons[call[t].c]
        /\ \E r \in OwnNeedy(call[t].c, "Dep") : BuiltWith(t, r, "Dep")

(***************************************************************************)
(* C37.  A step of a resolve on container c that auto-registers a key      *)
(* appends one transient registration of the key as itself to c's own      *)
(* scope and to no other: the entries of every other scope, and the        *)
(* lookups of every container that is neither c nor a descendant of c (its *)
(* parent, its siblings), are what they were.                              *)
(***************************************************************************)
\* thread t's resolve registers something in this step
AutoRegisters(t) ==
    /\ call[t].op = "resolve"
    /\ call[t].status = "running"
    /\ frames'[t] # frames[t]
    /\ regCount' # regCount

OwnScopeOnly(t) ==
    LET c == call[t].c
        key == Last(frames[t]).key
    IN /\ regCount' = regCount + 1
       /\ Len(entries'[c][key]) = Len(entries[c][key]) + 1
       /\ Last(entries'[c][key]).id = regCount'
       /\ Last(entries'[c][key]).scope = transient
       /\ Last(entries'[c][key]).builder = key
       /\ \A d \in Containers : d # c => entries'[d] = entries[d]
       /\ \A d \in Containers : c \notin ScopeChain(d)
             => \A k \in Keys : ScopeGet(parent', entries', d, k) = Get(d, k)

C37_OwnScopeOnly == [][\A t \in Threads : AutoRegisters(t) => OwnScopeOnly(t)]_vars

\* a child has auto-registered Dep; its parent and its sibling see none
C37_Witness ==
    \E t \in Threads : \E d \in Containers :
        /\ call[t].op = "resolve"
        /\ call[t].status = "returned"
        /\ parent[call[t].c] # 0
        /\ d # call[t].c
        /\ parent[d] = parent[call[t].c]
        /\ Own(call[t].c, "Dep") # << >>
        /\ UnregisteredAtStart(t, "Dep")
        /\ Get(d, "Dep") = << >>
        /\ Get(parent[d], "Dep") = << >>

(***************************************************************************)
(* C38.  A resolve call keeps every entry the singleton caches held before *)
(* it and touches no other container's cache; when it fails with           *)
(* MissingDependencyError, what its container's cache holds beyond that    *)
(* are the instances of singleton-scoped registrations that the call built *)
(* before it reached the missing key.                                      *)
(***************************************************************************)
Failed(t) ==
    /\ call[t].op = "resolve"
    /\ call[t].status = "raised"
    /\ call[t].err = "MissingDependencyError"

\* the keys whose cache entry thread t's call has written
AddedInCall(t) ==
    {key \in DOMAIN singletons[call[t].c] :
        Fresh(t, singletons[call[t].c][key])}

KeepsEntries(t) ==
    (call[t].op = "resolve" /\ call[t].status = "running"
        /\ frames'[t] # frames[t])
        => \A c \in Containers : \A key \in DOMAIN singletons[c] :
              /\ key \in DOMAIN singletons'[c]
              /\ singletons'[c][key] = singletons[c][key]

\* what a failed call has added was built by singleton-scoped registrations
AddedAreSingletons(t) ==
    Failed(t) =>
        \A key \in AddedInCall(t) :
            \E r \in Range(Get(call[t].c, key)) :
                /\ r.scope = singleton
                /\ BuiltBy(singletons[call[t].c][key], r)

C38_WitnessKept ==
    \E t \in Threads :
        /\ Failed(t)
        /\ call[t].key = "Root"
        /\ "Dep" \in DOMAIN singletons[call[t].c]
        /\ AddedInCall(t) = {}

(***************************************************************************)
(* C39.  resolve_all(K) on a container that sees no registration of K      *)
(* returns a new empty list, raises nothing and registers nothing, with    *)
(* auto-registration on or off.                                            *)
(***************************************************************************)
NothingRegistered(t) ==
    /\ Ended(t, "resolve_all")
    /\ UnregisteredAtStart(t, call[t].key)

EmptyList(t) ==
    /\ call[t].status = "returned"
    /\ Fresh(t, call[t].result)
    /\ objs[call[t].result.n].builder = "list"
    /\ objs[call[t].result.n].elems = << >>
    /\ regCount = call[t].regs
    /\ Get(call[t].c, call[t].key) = << >>

C39_EmptyList == \A t \in Threads : NothingRegistered(t) => EmptyList(t)

\* an auto-registering child has answered resolve_all of an unregistered
\* class with the empty list
C39_Witness ==
    \E t \in Threads :
        /\ NothingRegistered(t)
        /\ auto_register[call[t].c]
        /\ parent[call[t].c] # 0
        /\ call[t].key = "Dep"
        /\ EmptyList(t)

\* the same without auto-registration
C39_WitnessPlain ==
    \E t \in Threads :
        /\ NothingRegistered(t)
        /\ ~auto_register[call[t].c]
        /\ EmptyList(t)

====
